---- MODULE Spec2Model ----
(***************************************************************************)
(* The rating and projection engine of lolproj (src/src/elo.py and         *)
(* src/src/projection.py) as a state machine, with its collaborators: the  *)
(* market odds (src/src/polymarket.py), the league schedule                *)
(* (src/src/schedule_fetcher.py) and the sync of the match file            *)
(* (src/src/gdrive_sync.py).                                               *)
(*                                                                         *)
(* A response of a remote provider is a failure of the transport or of     *)
(* the parser, or a JSON value; a JSON value is a record tagged with its   *)
(* type.  A call returns a value or raises an exception.                   *)
(*                                                                         *)
(* Numbers.  The program computes in binary floating point; the model      *)
(* computes in exact integer arithmetic on fixed-point values:             *)
(*   - a rating is an integer number of 1/RU Elo points (1500 -> 150000);  *)
(*   - a probability is an exact fraction [num, den];                      *)
(*   - a margin multiplier is an integer number of hundredths;             *)
(*   - a history rating (round(x, 1)) is an integer number of tenths;      *)
(*   - 10 ** x and math.log are evaluated from tables of their values      *)
(*     with linear interpolation between the knots.                        *)
(* A missing value (NaN) is the sentinel NaN, which is no legal gold or    *)
(* game length.                                                            *)
(***************************************************************************)
EXTENDS Integers, Sequences, FiniteSets, TLC

VARIABLES
    table,        \* games_df handed to compute_all_elo: a sequence of rows
    by_league,    \* the by_league argument of compute_all_elo
    pc,           \* position of the computation
    leagues,      \* compute_all_elo: partitions still to be computed
    league,       \* compute_all_elo: label of the partition being computed
    league_games, \* compute_elo: its games_df argument
    groups,       \* compute_elo: game ids still to be iterated (groupby order)
    elos,         \* compute_elo: local rating mapping
    history,      \* compute_elo: local history list
    all_elos,     \* compute_all_elo: merged mapping
    all_history,  \* compute_all_elo: concatenated history
    history_df,   \* compute_all_elo: returned history table
    step,         \* locals of the loop iteration compute_elo executed last
    res,          \* result of the pure function or query applied last
    response,     \* what the remote provider answered to the request made last
    league_arg,   \* fetch_league_schedule: its league argument
    page_token,   \* fetch_league_schedule: token of the page to ask for next
    all_events,   \* fetch_league_schedule: match records collected so far
    requests,     \* number of getSchedule requests of the call
    data,         \* fetch_league_schedule: what _api_get returned last
    csv,          \* gdrive_sync: content of the file at CSV_PATH
    bak,          \* gdrive_sync: content of the file at CSV_PATH + ".bak"
    age,          \* gdrive_sync: hours since the file at CSV_PATH was modified
    force,        \* download_from_gdrive: its force argument
    gdown,        \* whether the gdown package can be imported
    tmp           \* download_from_gdrive: files in the temporary directory

\* The state of the rating and projection engine
engine == <<table, by_league, leagues, league, league_games, groups, elos,
            history, all_elos, all_history, history_df, step>>

\* The state of the collaborators at the edge of the engine
ext == <<response, league_arg, page_token, all_events, requests, data,
         csv, bak, age, force, gdown, tmp>>

vars == <<table, by_league, pc, leagues, league, league_games, groups, elos,
          history, all_elos, all_history, history_df, step, res,
          response, league_arg, page_token, all_events, requests, data,
          csv, bak, age, force, gdown, tmp>>

----------------------------------------------------------------------------
(* Bounds and input domains *)

MaxRows == 4

Teams == {"A", "B", "C"}
Leagues == {"LCK", "LPL"}

NaN == -1
RU == 100

STARTING_ELO == 1500 * RU
BASE_K == 32

None == [fn |-> "none"]
NoStep == [kind |-> "none"]

\* JSON values as json.loads returns them.  A value carries its Python
\* type: None, str, a number (an integer number of thousandths), list or dict
JNull == [t |-> "null"]
JStr(s) == [t |-> "str", s |-> s]
JNum(n) == [t |-> "num", n |-> n]
JList(items) == [t |-> "list", items |-> items]
JDict(d) == [t |-> "dict", d |-> d]

\* A file that does not exist
Absent == "absent"

\* fetch_league_schedule is not called
ScheduleIdle ==
    /\ league_arg = ""
    /\ page_token = JNull
    /\ all_events = << >>
    /\ requests = 0
    /\ data = JNull

\* download_from_gdrive is not called
SyncIdle ==
    /\ csv = Absent
    /\ bak = Absent
    /\ age = 0
    /\ force = FALSE
    /\ gdown = FALSE
    /\ tmp = << >>

\* The collaborators before any of them is called
ExtIdle ==
    /\ response = None
    /\ ScheduleIdle
    /\ SyncIdle

----------------------------------------------------------------------------
(* Arithmetic helpers *)

Abs(x) == IF x < 0 THEN -x ELSE x
Max(a, b) == IF a >= b THEN a ELSE b
Min(a, b) == IF a <= b THEN a ELSE b

\* n / d rounded to the nearest integer, halves away from zero (d > 0).
\* Like IEEE rounding it is odd: RoundDiv(-n, d) = -RoundDiv(n, d).
RoundDiv(n, d) ==
    IF n >= 0 THEN (2 * n + d) \div (2 * d) ELSE -((2 * (-n) + d) \div (2 * d))

RECURSIVE Exp10(_)
Exp10(n) == IF n = 0 THEN 1 ELSE 10 * Exp10(n - 1)

\* 1000 * 10^(k/16) for k = 0..16
Pow10Table ==
    <<1000, 1155, 1334, 1540, 1778, 2054, 2371, 2738, 3162,
      3652, 4217, 4870, 5623, 6494, 7499, 8660, 10000>>

\* 1000 * 10^(d / (400 * RU)) for a rating difference d >= 0 in rating units
Pow10Milli(d) ==
    LET decade == d \div (400 * RU)
        r == d % (400 * RU)
        k == r \div (25 * RU)
        f == r % (25 * RU)
        lo == Pow10Table[k + 1]
        hi == Pow10Table[k + 2]
    IN  (lo + ((hi - lo) * f) \div (25 * RU)) * Exp10(decade)

\* 1000 * ln(y) for y = 1.0, 1.5, ..., 7.0
LnTable ==
    <<0, 405, 693, 916, 1099, 1253, 1386, 1504, 1609, 1705, 1792, 1872, 1946>>

\* 1000 * ln(y / 1000) for 1000 <= y <= 7000
LnMilli(y) ==
    LET i == (y - 1000) \div 500
        f == (y - 1000) % 500
    IN  IF f = 0 THEN LnTable[i + 1]
        ELSE LnTable[i + 1] + ((LnTable[i + 2] - LnTable[i + 1]) * f) \div 500

\* round(x, 1): a rating in rating units to tenths of a point, halves to even
Round1(x) ==
    LET q == x \div (RU \div 10)
        r == x % (RU \div 10)
        half == (RU \div 10) \div 2
    IN  IF r < half THEN q
        ELSE IF r > half THEN q + 1
        ELSE IF q % 2 = 0 THEN q ELSE q + 1

----------------------------------------------------------------------------
(* Mappings (Python dict) and tables (pandas DataFrame) *)

EmptyDict == << >>

Put(d, k, v) == [x \in (DOMAIN d) \cup {k} |-> IF x = k THEN v ELSE d[x]]

\* A slip in the merge: a rating already in the mapping is kept
UpdateKeepFirst(d, e) ==
    [x \in (DOMAIN d) \cup (DOMAIN e) |-> IF x \in DOMAIN d THEN d[x] ELSE e[x]]

\* dict.update
Update(d, e) ==
    [x \in (DOMAIN d) \cup (DOMAIN e) |-> IF x \in DOMAIN e THEN e[x] ELSE d[x]]

\* A slip in the lookups: a missing key read as 0 instead of as the default
GetOrZero(d, k, default) == IF k \in DOMAIN d THEN d[k] ELSE 0

\* dict.get(k, default)
Get(d, k, default) == IF k \in DOMAIN d THEN d[k] ELSE default

\* The stable sort of s by the integer keys key[1..Len(s)], ascending
SortByKey(s, key) ==
    LET n == Len(s)
        Rank(i) == 1 + Cardinality({j \in 1..n :
                        key[j] < key[i] \/ (key[j] = key[i] /\ j < i)})
    IN  [p \in 1..n |-> s[CHOOSE i \in 1..n : Rank(i) = p]]

\* DataFrame.sort_values("date")
SortValuesDate(df) == SortByKey(df, [i \in 1..Len(df) |-> df[i].date])

SideRank(s) == IF s = "Blue" THEN 0 ELSE 1

\* DataFrame.sort_values("side"): "Blue" < "Red"
SortValuesSide(df) == SortByKey(df, [i \in 1..Len(df) |-> SideRank(df[i].side)])

\* The ascending sequence of the integers of a finite set
SortedSeq(S) ==
    [p \in 1..Cardinality(S) |->
        CHOOSE x \in S : Cardinality({y \in S : y < x}) = p - 1]

\* The keys of groupby("gameid") in iteration order (sort=True: ascending key)
GroupKeys(df) == SortedSeq({df[i].gameid : i \in 1..Len(df)})

\* One group of groupby("gameid"): its rows in the order of df
GroupRows(df, gameid) == SelectSeq(df, LAMBDA r : r.gameid = gameid)

\* games_df["league"].unique(): the leagues in order of first appearance
UniqueLeagues(df) ==
    LET firsts == {i \in 1..Len(df) :
                     \A j \in 1..(i - 1) : df[j].league # df[i].league}
        idx == SortedSeq(firsts)
    IN  [p \in 1..Len(idx) |-> df[idx[p]].league]

----------------------------------------------------------------------------
(* elo.py: core ELO math *)

\* A slip in expected_win_prob: the exponent taken from the absolute rating
\* difference, so that both sides get the underdog's score
expected_win_prob_abs(elo_a, elo_b) ==
    [num |-> 1000, den |-> 1000 + Pow10Milli(Abs(elo_b - elo_a))]

\* expected_win_prob: 1.0 / (1.0 + 10 ** ((elo_b - elo_a) / 400)), as the
\* exact fraction num/den.  10 ** x of a negative x is 1 / 10 ** (-x).
expected_win_prob(elo_a, elo_b) ==
    LET d == elo_b - elo_a
        p == Pow10Milli(Abs(d))
    IN  IF d >= 0 THEN [num |-> 1000, den |-> 1000 + p]
        ELSE [num |-> p, den |-> p + 1000]

\* A slip in the clamp: the cap of 2.5 left out
ClampMarginNoCap(raw) == Max(100, raw)

\* _margin_multiplier, line 45: max(1.0, min(2.5, ...))
ClampMargin(raw) == Max(100, Min(250, raw))

\* _margin_multiplier, in hundredths
margin_multiplier(winner_gold, loser_gold, game_length) ==
    IF winner_gold = NaN \/ loser_gold = NaN \/ winner_gold + loser_gold = 0
    THEN 100
    ELSE
        LET gold_diff_pct ==
                (2000 * Abs(winner_gold - loser_gold))
                    \div (winner_gold + loser_gold)
            length_factor ==
                IF game_length # NaN /\ game_length > 0
                THEN Max(800, Min(1300, (1800 * 1000) \div Max(game_length, 600)))
                ELSE 1000
            raw == ((1000 + LnMilli(1000 + 3 * gold_diff_pct)) * length_factor)
                       \div 10000
        IN  ClampMargin(raw)

\* A slip in the update: the step floored to a whole rating unit (//)
DeltaFloor(k, actual, expected) ==
    (k * (actual * expected.den - expected.num)) \div expected.den

\* k * (actual - expected) in rating units, k in hundredths of a point
Delta(k, actual, expected) ==
    RoundDiv(k * (actual * expected.den - expected.num), expected.den)

\* A slip in the skip test: only a group of fewer than two rows is skipped
IsMalformedBelowTwo(group) == Len(group) < 2

\* compute_elo, line 74: a group that is not a pair of rows is skipped
IsMalformed(group) == Len(group) # 2

\* A slip in the history: the rating read before the update is recorded
RecordedRatingBefore(before, after) == before

\* compute_elo, lines 120 and 122: the history entry reads elos[team] after
\* lines 115-116 have written it
RecordedRating(before, after) == after

\* compute_elo, lines 77-123: one iteration of the loop on a two-row group,
\* with the values of its locals.  elos_out and entries are the mapping and
\* the two history entries it leaves.
GameStep(elos_in, gameid, group) ==
    LET rows == SortValuesSide(group)
        blue_row == rows[1]
        red_row == rows[2]
        blue_team == blue_row.teamname
        red_team == red_row.teamname
        e1 == IF blue_team \in DOMAIN elos_in THEN elos_in
              ELSE Put(elos_in, blue_team, STARTING_ELO)
        e2 == IF red_team \in DOMAIN e1 THEN e1
              ELSE Put(e1, red_team, STARTING_ELO)
        elo_blue == e2[blue_team]
        elo_red == e2[red_team]
        exp_blue == expected_win_prob(elo_blue, elo_red)
        exp_red == [num |-> exp_blue.den - exp_blue.num, den |-> exp_blue.den]
        blue_won == blue_row.result = 1
        actual_blue == IF blue_won THEN 1 ELSE 0
        actual_red == 1 - actual_blue
        mov == IF blue_won
               THEN margin_multiplier(blue_row.totalgold, red_row.totalgold,
                                      blue_row.gamelength)
               ELSE margin_multiplier(red_row.totalgold, blue_row.totalgold,
                                      red_row.gamelength)
        k == BASE_K * mov
        e3 == Put(e2, blue_team, elo_blue + Delta(k, actual_blue, exp_blue))
        e4 == Put(e3, red_team, elo_red + Delta(k, actual_red, exp_red))
        date == blue_row.date
    IN  [kind |-> "game", gameid |-> gameid,
         blue_row |-> blue_row, red_row |-> red_row,
         blue_team |-> blue_team, red_team |-> red_team,
         elos_in |-> elos_in,
         elo_blue |-> elo_blue, elo_red |-> elo_red,
         exp_blue |-> exp_blue, exp_red |-> exp_red,
         actual_blue |-> actual_blue, actual_red |-> actual_red,
         mov |-> mov, k |-> k,
         elos_out |-> e4,
         entries |->
            << [team |-> blue_team,
                elo |-> Round1(RecordedRating(elo_blue, e4[blue_team])),
                date |-> date, gameid |-> gameid],
               [team |-> red_team,
                elo |-> Round1(RecordedRating(elo_red, e4[red_team])),
                date |-> date, gameid |-> gameid] >>]

\* A slip in compute_elo: the rows sorted in place,
\* games_df.sort_values("date", inplace=True)
FrameAfterSortInPlace(df) == SortValuesDate(df)

\* compute_elo, line 71: sort_values without inplace returns a new frame and
\* leaves the frame it is called on as it was
FrameAfterSort(df) == df

\* compute_elo, line 71: the rows sorted by date, from which groupby draws
GroupSource(games_df) == SortValuesDate(games_df)

\* compute_elo, line 73: the order in which the groups are visited
GroupOrder(games_df) == GroupKeys(GroupSource(games_df))

\* compute_elo as a function of its table: the loop folded over the groups
RECURSIVE EloLoop(_, _, _, _)
EloLoop(src, keys, e, h) ==
    IF keys = << >> THEN [elos |-> e, history |-> h]
    ELSE LET group == GroupRows(src, Head(keys))
         IN  IF IsMalformed(group) THEN EloLoop(src, Tail(keys), e, h)
             ELSE LET g == GameStep(e, Head(keys), group)
                  IN  EloLoop(src, Tail(keys), g.elos_out, h \o g.entries)

compute_elo(games_df) ==
    EloLoop(GroupSource(games_df), GroupOrder(games_df), EmptyDict, << >>)

\* compute_all_elo, lines 141-154: the partitions to compute, in order
Partitions(games_df, byLeague) ==
    IF byLeague THEN UniqueLeagues(games_df) ELSE <<"Global">>

\* A slip in the partitioning: the league filter left out
PartitionRowsUnfiltered(games_df, byLeague, lg) == games_df

\* compute_all_elo, lines 143 and 150: the table handed to compute_elo
PartitionRows(games_df, byLeague, lg) ==
    IF byLeague THEN SelectSeq(games_df, LAMBDA r : r.league = lg)
    ELSE games_df

\* compute_all_elo, lines 146-147: h["league"] = league on every entry
TagLeague(hist, lg) ==
    [i \in 1..Len(hist) |->
        [team |-> hist[i].team, elo |-> hist[i].elo, date |-> hist[i].date,
         gameid |-> hist[i].gameid, league |-> lg]]

\* compute_all_elo, lines 156-159: history_df.sort_values("date")
SortHistory(hist) == SortByKey(hist, [i \in 1..Len(hist) |-> hist[i].date])

\* compute_all_elo as a function of its arguments
RECURSIVE AllEloLoop(_, _, _, _, _)
AllEloLoop(games_df, byLeague, parts, ae, ah) ==
    IF parts = << >> THEN [elos |-> ae, history |-> SortHistory(ah)]
    ELSE LET r == compute_elo(PartitionRows(games_df, byLeague, Head(parts)))
         IN  AllEloLoop(games_df, byLeague, Tail(parts),
                        Update(ae, r.elos),
                        ah \o TagLeague(r.history, Head(parts)))

compute_all_elo(games_df, byLeague) ==
    AllEloLoop(games_df, byLeague, Partitions(games_df, byLeague),
               EmptyDict, << >>)

----------------------------------------------------------------------------
(* projection.py: factor definitions *)

\* The factors, in the order of the keys of FACTOR_COLS
Factors ==
    <<"early_game", "objective_control", "team_fighting", "vision_macro">>

FactorSet == {Factors[i] : i \in 1..Len(Factors)}

\* FACTOR_COLS: the columns of each factor with their weights, in tenths
FACTOR_COLS ==
    [early_game |->
        ("golddiffat10" :> 10) @@ ("golddiffat15" :> 10) @@
        ("xpdiffat10" :> 8) @@ ("csdiffat10" :> 6) @@ ("firstblood" :> 5),
     objective_control |->
        ("firstdragon" :> 8) @@ ("firstbaron" :> 8) @@ ("firsttower" :> 7) @@
        ("dragons" :> 10) @@ ("barons" :> 10) @@ ("heralds" :> 6) @@
        ("void_grubs" :> 5) @@ ("towers" :> 8),
     team_fighting |->
        ("team kpm" :> 10) @@ ("kills" :> 8) @@ ("deaths" :> 0 - 10) @@
        ("assists" :> 5) @@ ("dpm" :> 7),
     vision_macro |->
        ("vspm" :> 10) @@ ("wpm" :> 8) @@ ("wcpm" :> 7) @@
        ("earned gpm" :> 10) @@ ("gspd" :> 8)]

\* FACTOR_WEIGHTS, in hundredths
FACTOR_WEIGHTS ==
    [elo |-> 30, early_game |-> 20, objective_control |-> 20,
     team_fighting |-> 15, vision_macro |-> 15]

----------------------------------------------------------------------------
(* projection.py: team profiles.  A statistic is an integer; a mean, a     *)
(* standard deviation, a z-score and a factor score are integer numbers of *)
(* thousandths.                                                            *)

RECURSIVE SumSeq(_)
SumSeq(s) == IF s = << >> THEN 0 ELSE Head(s) + SumSeq(Tail(s))

\* The sum of f[x] over the x of the finite set S
RECURSIVE SumOver(_, _)
SumOver(S, f) ==
    IF S = {} THEN 0
    ELSE LET x == CHOOSE y \in S : TRUE IN f[x] + SumOver(S \ {x}, f)

\* The greatest r in lo..hi with r * r <= n
RECURSIVE SqrtSearch(_, _, _)
SqrtSearch(n, lo, hi) ==
    IF lo = hi THEN lo
    ELSE LET mid == (lo + hi + 1) \div 2
         IN  IF mid * mid <= n THEN SqrtSearch(n, mid, hi)
             ELSE SqrtSearch(n, lo, mid - 1)

\* The square root of n >= 0, rounded to the nearest integer
Sqrt(n) ==
    LET r == SqrtSearch(n, 0, Min(n, 46340))
    IN  IF n - r * r > r THEN r + 1 ELSE r

\* The numeric statistic columns of a table
Columns(df) == IF df = << >> THEN {} ELSE DOMAIN df[1].stats

\* games_df["teamname"].unique(): the teams in order of first appearance
UniqueTeams(df) ==
    LET firsts == {i \in 1..Len(df) :
                     \A j \in 1..(i - 1) : df[j].teamname # df[i].teamname}
        idx == SortedSeq(firsts)
    IN  [p \in 1..Len(idx) |-> df[idx[p]].teamname]

TeamNames(df) == {df[i].teamname : i \in 1..Len(df)}

\* games_df[games_df["teamname"] == team]
TeamRows(df, t) == SelectSeq(df, LAMBDA r : r.teamname = t)

\* DataFrame.tail(n) for n >= 1
TailRows(df, n) ==
    IF Len(df) <= n THEN df ELSE SubSeq(df, Len(df) - n + 1, Len(df))

\* The values of a column that are not missing
Values(df, col) ==
    SelectSeq([i \in 1..Len(df) |-> df[i].stats[col]], LAMBDA v : v # NaN)

\* mean(numeric_only=True) of a column skips the missing values and is NaN
\* when there is no value
HasMean(df, col) == Values(df, col) # << >>

MeanMilli(df, col) ==
    RoundDiv(1000 * SumSeq(Values(df, col)), Len(Values(df, col)))

\* _compute_league_stats(games_df)[col]: mean and sample standard deviation
\* of the per-team means; a standard deviation of 0 or NaN is replaced by 1.0
compute_league_stats(games_df, col) ==
    LET T == {t \in TeamNames(games_df) : HasMean(TeamRows(games_df, t), col)}
        n == Cardinality(T)
        avg == [t \in T |-> MeanMilli(TeamRows(games_df, t), col)]
        mean == RoundDiv(SumOver(T, avg), Max(n, 1))
        sumsq == SumOver(T, [t \in T |-> (avg[t] - mean) * (avg[t] - mean)])
        std == IF n < 2 \/ sumsq = 0 THEN 1000
               ELSE Max(1, Sqrt(RoundDiv(sumsq, n - 1)))
    IN  [mean |-> mean, std |-> std]

\* compute_team_profile, lines 120-127: the columns of a factor that are
\* applied: present in the table and not NaN for the team
AppliedCols(factor, team_df, games_df) ==
    {col \in DOMAIN FACTOR_COLS[factor] :
        col \in Columns(games_df) /\ HasMean(team_df, col)}

\* compute_team_profile, line 126: the z-score of the team's mean of a column
ZScore(col, team_df, games_df) ==
    LET s == compute_league_stats(games_df, col)
    IN  RoundDiv((MeanMilli(team_df, col) - s.mean) * 1000, s.std)

\* compute_team_profile, lines 119-129: the score of one factor
FactorScore(factor, team_df, games_df) ==
    LET cols == AppliedCols(factor, team_df, games_df)
        weighted_z ==
            SumOver(cols, [c \in cols |->
                ZScore(c, team_df, games_df) * FACTOR_COLS[factor][c]])
        total_weight ==
            SumOver(cols, [c \in cols |-> Abs(FACTOR_COLS[factor][c])])
    IN  RoundDiv(weighted_z, Max(total_weight, 10))

\* A slip in the profile: the rows are not filtered by team
compute_team_profile_unfiltered(team, games_df, last_n) ==
    LET team_df == IF last_n # 0 THEN TailRows(games_df, last_n) ELSE games_df
    IN  IF team_df = << >> THEN [f \in FactorSet |-> 0]
        ELSE [f \in FactorSet |-> FactorScore(f, team_df, games_df)]

\* compute_team_profile(team, games_df, last_n); last_n = 0 stands for None
compute_team_profile(team, games_df, last_n) ==
    LET rows == TeamRows(games_df, team)
        team_df == IF last_n # 0 THEN TailRows(rows, last_n) ELSE rows
    IN  IF team_df = << >> THEN [f \in FactorSet |-> 0]
        ELSE [f \in FactorSet |-> FactorScore(f, team_df, games_df)]

\* PLAYSTYLE_THRESHOLDS: the labels, in the order of the keys
PlaystyleLabels ==
    <<"Early Aggressor", "Lane Kingdom", "Objective Focused",
      "Team Fight Monsters", "Vision Control", "Late-Game Scaling",
      "Balanced">>

\* PLAYSTYLE_THRESHOLDS[label](p): a missing factor reads as 0
PlaystyleCondition(label, p) ==
    CASE label = "Early Aggressor" -> Get(p, "early_game", 0) > 700
      [] label = "Lane Kingdom" ->
            Get(p, "early_game", 0) > 500 /\ Get(p, "vision_macro", 0) > 500
      [] label = "Objective Focused" -> Get(p, "objective_control", 0) > 700
      [] label = "Team Fight Monsters" -> Get(p, "team_fighting", 0) > 700
      [] label = "Vision Control" -> Get(p, "vision_macro", 0) > 700
      [] label = "Late-Game Scaling" ->
            Get(p, "early_game", 0) < 0 - 300 /\ Get(p, "team_fighting", 0) > 300
      [] label = "Balanced" -> TRUE

\* A slip in the loop: the label is assigned without returning, so the last
\* label whose condition holds wins
RECURSIVE LastLabel(_, _)
LastLabel(labels, p) ==
    IF labels = << >> THEN "Balanced"
    ELSE IF PlaystyleCondition(labels[Len(labels)], p) THEN labels[Len(labels)]
    ELSE LastLabel(SubSeq(labels, 1, Len(labels) - 1), p)

\* get_playstyle_label, lines 135-138: the loop returns at the first label
\* whose condition holds, and "Balanced" after the loop
RECURSIVE FirstLabel(_, _)
FirstLabel(labels, p) ==
    IF labels = << >> THEN "Balanced"
    ELSE IF PlaystyleCondition(Head(labels), p) THEN Head(labels)
    ELSE FirstLabel(Tail(labels), p)

get_playstyle_label(p) == FirstLabel(PlaystyleLabels, p)

----------------------------------------------------------------------------
(* projection.py: matchup projection and power rankings.  A composite and  *)
(* a win probability are integer numbers of thousandths.                   *)

\* 1000 * exp(y / 1000) for y >= 0, from the table of 10 ** x:
\* exp(y) = 10 ** (y * log10(e)); beyond exp(13) the value only matters as
\* being large
ExpMilli(y) ==
    IF y >= 13000 THEN 1000000000
    ELSE Pow10Milli((y * 17372 * (RU \div 100)) \div 1000)

\* A slip in the logistic: the scale factor applied to the exponential,
\* 1 / (1 + np.exp(-diff) * 3)
WinProbScaledOutside(diff) ==
    LET t == RoundDiv(diff, 100)
        e == ExpMilli(Abs(t))
    IN  IF t >= 0 THEN RoundDiv(1000 * e, e + 3000)
        ELSE RoundDiv(1000 * e, e + 3 * 1000)

\* project_matchup, line 188: round(1 / (1 + np.exp(-diff * 3)), 3) in
\* thousandths, for a composite difference in units of 1/100000
WinProb(diff) ==
    LET t == RoundDiv(3 * diff, 100)
        e == ExpMilli(Abs(t))
        low == RoundDiv(1000000, e + 1000)
    IN  IF t >= 0 THEN 1000 - low ELSE low

\* f.replace("_", " ").title()
Title(f) ==
    CASE f = "early_game" -> "Early Game"
      [] f = "objective_control" -> "Objective Control"
      [] f = "team_fighting" -> "Team Fighting"
      [] f = "vision_macro" -> "Vision Macro"

\* A slip in _classify: the lists returned without the placeholders
ClassifyNoPlaceholder(profile) ==
    LET idx == [i \in 1..Len(Factors) |-> i]
        strong == SelectSeq(idx, LAMBDA i : profile[Factors[i]] > 300)
        weak == SelectSeq(idx, LAMBDA i : profile[Factors[i]] < 0 - 300)
    IN  [strengths |-> [p \in 1..Len(strong) |-> Title(Factors[strong[p]])],
         weaknesses |-> [p \in 1..Len(weak) |-> Title(Factors[weak[p]])]]

\* project_matchup._classify
Classify(profile) ==
    LET names == [i \in 1..Len(Factors) |-> Title(Factors[i])]
        idx == [i \in 1..Len(Factors) |-> i]
        strong == SelectSeq(idx, LAMBDA i : profile[Factors[i]] > 300)
        weak == SelectSeq(idx, LAMBDA i : profile[Factors[i]] < 0 - 300)
        strengths == [p \in 1..Len(strong) |-> names[strong[p]]]
        weaknesses == [p \in 1..Len(weak) |-> names[weak[p]]]
    IN  [strengths |-> IF strengths = << >> THEN <<"Balanced">> ELSE strengths,
         weaknesses |-> IF weaknesses = << >> THEN <<"None">> ELSE weaknesses]

\* A slip in the ELO component: the difference taken the other way round
EloTermReversed(elo_a, elo_b) == RoundDiv((elo_b - elo_a) * 1000, 200 * RU)

\* project_matchup, line 172: (elo_a - elo_b) / 200, in thousandths
EloTerm(elo_a, elo_b) == RoundDiv((elo_a - elo_b) * 1000, 200 * RU)

\* The weighted sum of the factor scores, in units of 1/100000
WeightedFactors(w, profile) ==
    SumOver(FactorSet, [f \in FactorSet |-> Get(w, f, 0) * Get(profile, f, 0)])

\* project_matchup(team_a, team_b, games_df, elo_dict, last_n) with the
\* default weights
project_matchup(team_a, team_b, games_df, elo_dict, last_n) ==
    LET w == FACTOR_WEIGHTS
        profile_a == compute_team_profile(team_a, games_df, last_n)
        profile_b == compute_team_profile(team_b, games_df, last_n)
        elo_a == Get(elo_dict, team_a, STARTING_ELO)
        elo_b == Get(elo_dict, team_b, STARTING_ELO)
        elo_diff == EloTerm(elo_a, elo_b)
        composite_a == w.elo * elo_diff + WeightedFactors(w, profile_a)
        composite_b == (0 - w.elo * elo_diff) + WeightedFactors(w, profile_b)
        diff == composite_a - composite_b
        win_prob_a == WinProb(diff)
        win_prob_b == 1000 - win_prob_a
        class_a == Classify(profile_a)
        class_b == Classify(profile_b)
    IN  [win_prob_a |-> win_prob_a,
         win_prob_b |-> win_prob_b,
         composite_a |-> RoundDiv(composite_a, 100),
         composite_b |-> RoundDiv(composite_b, 100),
         elo_a |-> Round1(elo_a),
         elo_b |-> Round1(elo_b),
         elo_edge |-> IF elo_a > elo_b THEN team_a ELSE team_b,
         factor_breakdown |->
            [f \in FactorSet |->
                [team_a |-> Get(profile_a, f, 0), team_b |-> Get(profile_b, f, 0)]],
         profile_a |-> profile_a,
         profile_b |-> profile_b,
         playstyle_a |-> get_playstyle_label(profile_a),
         playstyle_b |-> get_playstyle_label(profile_b),
         strengths_a |-> class_a.strengths,
         weaknesses_a |-> class_a.weaknesses,
         strengths_b |-> class_b.strengths,
         weaknesses_b |-> class_b.weaknesses]

\* global_power_rankings, lines 234-253: the leaderboard row of one team
PowerRow(team, games_df, elo_dict) ==
    LET profile == compute_team_profile(team, games_df, 0)
        elo == Get(elo_dict, team, STARTING_ELO)
        composite ==
            WeightedFactors(FACTOR_WEIGHTS, profile)
            + FACTOR_WEIGHTS.elo * RoundDiv((elo - STARTING_ELO) * 1000, 200 * RU)
        team_games == TeamRows(games_df, team)
        wins == SumSeq([i \in 1..Len(team_games) |-> team_games[i].result])
        games_played == Len(team_games)
    IN  [team |-> team,
         league |-> team_games[1].league,
         elo |-> Round1(elo),
         composite |-> RoundDiv(composite, 100),
         playstyle |-> get_playstyle_label(profile),
         record |-> <<wins, games_played - wins>>,
         win_rate |-> RoundDiv(1000 * wins, Max(games_played, 1))]

\* DataFrame.head(n) for n >= 0
HeadRows(df, n) == SubSeq(df, 1, Min(n, Len(df)))

\* global_power_rankings(games_df, elo_dict, top_n).  Row i of the result has
\* rank i.  Without a team the frame built from the empty list has no
\* column, and sort_values("composite") raises KeyError.
global_power_rankings(games_df, elo_dict, top_n) ==
    LET teams == UniqueTeams(games_df)
        rows == [i \in 1..Len(teams) |-> PowerRow(teams[i], games_df, elo_dict)]
        df == SortByKey(rows, [i \in 1..Len(rows) |-> 0 - rows[i].composite])
    IN  IF rows = << >> THEN [raised |-> "KeyError", rows |-> << >>]
        ELSE [raised |-> "none", rows |-> HeadRows(df, top_n)]

\* get_league_elo_rankings(elo_dict, league_teams): list.sort is stable, with
\* reverse=True too
get_league_elo_rankings(elo_dict, league_teams) ==
    LET rankings ==
            [i \in 1..Len(league_teams) |->
                <<league_teams[i], Get(elo_dict, league_teams[i], STARTING_ELO)>>]
    IN  SortByKey(rankings, [i \in 1..Len(rankings) |-> 0 - rankings[i][2]])

\* get_elo_history(team, history_df)
get_elo_history(team, hist) == SelectSeq(hist, LAMBDA h : h.team = team)

----------------------------------------------------------------------------
(* The match tables the rating engine is run on *)

\* A row of the columns the rating engine reads, without statistic columns
Row(g, d, lg, t, sd, rs, gold, len) ==
    [gameid |-> g, date |-> d, league |-> lg, teamname |-> t, side |-> sd,
     result |-> rs, totalgold |-> gold, gamelength |-> len,
     stats |-> EmptyDict]

\* Team-level rows of two games.  Game 1 carries the later date, so id
\* order and date order differ; the rows of a game id combine to well-formed
\* pairs and to every malformed shape: a single row, three rows, the same
\* team twice, the same side twice, two winners, no winner, rows of one game
\* id in two leagues, a team in two leagues, missing and zero gold.
RowPool ==
    { Row(1, 2, "LCK", "A", "Blue", 1, 60000, 1500),
      Row(1, 2, "LCK", "B", "Red",  0, 40000, 1500),
      Row(1, 2, "LPL", "C", "Red",  0, 50000, 2400),
      Row(1, 2, "LCK", "A", "Red",  0, 45000, 1500),
      Row(1, 1, "LCK", "C", "Blue", 1, 0, NaN),
      Row(2, 1, "LCK", "B", "Blue", 1, NaN, 2400),
      Row(2, 1, "LCK", "A", "Red",  0, 45000, 2400),
      Row(2, 1, "LPL", "A", "Red",  1, 52000, 1200),
      Row(2, 1, "LPL", "C", "Blue", 0, 48000, 1200),
      Row(2, 2, "LCK", "C", "Red",  0, 0, 3000) }

RECURSIVE SeqsUpTo(_, _)
SeqsUpTo(S, n) ==
    IF n = 0 THEN {<< >>}
    ELSE LET shorter == SeqsUpTo(S, n - 1)
         IN  shorter \cup
             {Append(t, r) : t \in {u \in shorter : Len(u) = n - 1},
                             r \in S}

Distinct(t) == \A i, j \in 1..Len(t) : i # j => t[i] # t[j]

\* The tables: every sequence of at most MaxRows different rows of the pool
Tables == {t \in SeqsUpTo(RowPool, MaxRows) : Distinct(t)}

----------------------------------------------------------------------------
(* compute_all_elo and compute_elo, statement by statement *)

Init ==
    /\ table \in Tables
    /\ by_league \in BOOLEAN
    /\ pc = "start"
    /\ leagues = << >>
    /\ league = "-"
    /\ league_games = << >>
    /\ groups = << >>
    /\ elos = EmptyDict
    /\ history = << >>
    /\ all_elos = EmptyDict
    /\ all_history = << >>
    /\ history_df = << >>
    /\ step = NoStep
    /\ res = None
    /\ ExtIdle

\* compute_all_elo, lines 138-142: the call, up to the loop over the leagues
Call ==
    /\ pc = "start"
    /\ all_elos' = EmptyDict
    /\ all_history' = << >>
    /\ leagues' = Partitions(table, by_league)
    /\ pc' = "league"
    /\ UNCHANGED <<table, by_league, league, league_games, groups, elos,
                   history, history_df, step, res>>
    /\ UNCHANGED ext

\* compute_all_elo, lines 143-144 and 150; compute_elo, lines 67-71: the
\* call of compute_elo on the next partition, up to its loop
\* (in per-league mode compute_elo is handed a selection of the table, in
\* global mode the table itself)
BeginPartition ==
    /\ pc = "league"
    /\ leagues # << >>
    /\ league' = Head(leagues)
    /\ league_games' =
          FrameAfterSort(PartitionRows(table, by_league, Head(leagues)))
    /\ table' = IF by_league THEN table ELSE FrameAfterSort(table)
    /\ elos' = EmptyDict
    /\ history' = << >>
    /\ groups' = GroupOrder(PartitionRows(table, by_league, Head(leagues)))
    /\ step' = NoStep
    /\ pc' = "games"
    /\ UNCHANGED <<by_league, leagues, all_elos, all_history, history_df, res>>
    /\ UNCHANGED ext

\* compute_elo, lines 73-75: an iteration that skips its group
SkipGame ==
    /\ pc = "games"
    /\ groups # << >>
    /\ IsMalformed(GroupRows(GroupSource(league_games), Head(groups)))
    /\ groups' = Tail(groups)
    /\ step' = [kind |-> "skip", gameid |-> Head(groups)]
    /\ UNCHANGED <<table, by_league, pc, leagues, league, league_games, elos,
                   history, all_elos, all_history, history_df, res>>
    /\ UNCHANGED ext

\* compute_elo, lines 73-123: an iteration that rates its game
PlayGame ==
    /\ pc = "games"
    /\ groups # << >>
    /\ ~IsMalformed(GroupRows(GroupSource(league_games), Head(groups)))
    /\ LET g == GameStep(elos, Head(groups),
                         GroupRows(GroupSource(league_games), Head(groups)))
       IN  /\ elos' = g.elos_out
           /\ history' = history \o g.entries
           /\ step' = g
    /\ groups' = Tail(groups)
    /\ UNCHANGED <<table, by_league, pc, leagues, league, league_games,
                   all_elos, all_history, history_df, res>>
    /\ UNCHANGED ext

\* compute_elo, line 125, and compute_all_elo, lines 145-148 and 151-154:
\* compute_elo returns and its result is merged
EndPartition ==
    /\ pc = "games"
    /\ groups = << >>
    /\ all_elos' = Update(all_elos, elos)
    /\ all_history' = all_history \o TagLeague(history, league)
    /\ leagues' = Tail(leagues)
    /\ pc' = "league"
    /\ UNCHANGED <<table, by_league, league, league_games, groups, elos,
                   history, history_df, step, res>>
    /\ UNCHANGED ext

\* compute_all_elo, lines 156-161: the history table is sorted and returned
Return ==
    /\ pc = "league"
    /\ leagues = << >>
    /\ history_df' = SortHistory(all_history)
    /\ pc' = "done"
    /\ UNCHANGED <<table, by_league, leagues, league, league_games, groups,
                   elos, history, all_elos, all_history, step, res>>
    /\ UNCHANGED ext

Next ==
    \/ Call
    \/ BeginPartition
    \/ SkipGame
    \/ PlayGame
    \/ EndPartition
    \/ Return

Spec == Init /\ [][Next]_vars

----------------------------------------------------------------------------
(* The pure functions and a single loop iteration, on grids of inputs *)

MaxGold == 8
MaxLength == 12
MaxRatingStep == 32

GoldGrid == {NaN} \cup {10000 * i : i \in 0..MaxGold}
LengthGrid == {NaN} \cup {300 * i : i \in 0..MaxLength}
RatingGrid ==
    {STARTING_ELO + 625 * i : i \in (0 - MaxRatingStep)..MaxRatingStep}

\* The two rows of one game id: any sides, results, gold and lengths, two
\* teams or the same team twice
GameRows(teams) ==
    { Row(1, 1, "LCK", t, sd, rs, gold, len) :
        t \in teams, sd \in {"Blue", "Red"}, rs \in {0, 1},
        gold \in {NaN, 0, 40000, 60000}, len \in {NaN, 1500} }

GameTables == {<<r1, r2>> : r1 \in GameRows({"A"}), r2 \in GameRows({"A", "B"})}

\* The mapping compute_elo holds when it reaches the game: each team is
\* unseen or was rated by earlier games
PreElos ==
    LET rated == {STARTING_ELO - 3725, STARTING_ELO + 8150}
        Dicts(T) == [T -> rated]
    IN  UNION {Dicts(T) : T \in SUBSET {"A", "B"}}

\* compute_elo has reached the group of one game
InitGame ==
    /\ table \in GameTables
    /\ by_league = FALSE
    /\ pc = "games"
    /\ leagues = <<"Global">>
    /\ league = "Global"
    /\ league_games = table
    /\ groups = GroupOrder(table)
    /\ elos \in PreElos
    /\ history = << >>
    /\ all_elos = EmptyDict
    /\ all_history = << >>
    /\ history_df = << >>
    /\ step = NoStep
    /\ res = None
    /\ ExtIdle

\* No computation is running; a pure function is about to be applied
InitMath ==
    /\ table = << >>
    /\ by_league = FALSE
    /\ pc = "math"
    /\ leagues = << >>
    /\ league = "-"
    /\ league_games = << >>
    /\ groups = << >>
    /\ elos = EmptyDict
    /\ history = << >>
    /\ all_elos = EmptyDict
    /\ all_history = << >>
    /\ history_df = << >>
    /\ step = NoStep
    /\ res = None
    /\ ExtIdle

InitUnit == InitGame \/ InitMath

\* expected_win_prob(elo_a, elo_b)
ApplyExpected ==
    /\ pc = "math"
    /\ \E a \in RatingGrid, b \in RatingGrid :
          res' = [fn |-> "expected_win_prob", elo_a |-> a, elo_b |-> b,
                  value |-> expected_win_prob(a, b)]
    /\ pc' = "applied"
    /\ UNCHANGED <<table, by_league, leagues, league, league_games, groups,
                   elos, history, all_elos, all_history, history_df, step>>
    /\ UNCHANGED ext

\* _margin_multiplier(winner_gold, loser_gold, game_length)
ApplyMargin ==
    /\ pc = "math"
    /\ \E wg \in GoldGrid, lg \in GoldGrid, len \in LengthGrid :
          res' = [fn |-> "margin_multiplier", winner_gold |-> wg,
                  loser_gold |-> lg, game_length |-> len,
                  value |-> margin_multiplier(wg, lg, len)]
    /\ pc' = "applied"
    /\ UNCHANGED <<table, by_league, leagues, league, league_games, groups,
                   elos, history, all_elos, all_history, history_df, step>>
    /\ UNCHANGED ext

\* The factor scores at and around the thresholds of PLAYSTYLE_THRESHOLDS
ScoreGrid == {0 - 301, 0 - 300, 300, 301, 500, 501, 700, 701}

\* The profiles: a score, or no entry, for each factor
ProfileGrid == UNION {[F -> ScoreGrid] : F \in SUBSET FactorSet}

\* get_playstyle_label(profile)
ApplyLabel ==
    /\ pc = "math"
    /\ \E profile \in ProfileGrid :
          res' = [fn |-> "get_playstyle_label", profile |-> profile,
                  value |-> get_playstyle_label(profile)]
    /\ pc' = "applied"
    /\ UNCHANGED <<table, by_league, leagues, league, league_games, groups,
                   elos, history, all_elos, all_history, history_df, step>>
    /\ UNCHANGED ext

NextUnit ==
    \/ PlayGame
    \/ ApplyExpected
    \/ ApplyMargin
    \/ ApplyLabel

SpecUnit == InitUnit /\ [][NextUnit]_vars

----------------------------------------------------------------------------
(* The application: app.py computes the ratings of the loaded table, and   *)
(* a page run then puts one query to the projector or the rankings         *)

MaxAppRows == 3

\* A row with the statistic columns golddiffat10, firstblood and deaths
StatRow(base, gd, fb, de) ==
    [base EXCEPT !.stats =
        ("golddiffat10" :> gd) @@ ("firstblood" :> fb) @@ ("deaths" :> de)]

\* Team-level rows of three games with statistics, some of them missing.
\* Game 3 has one row in every league, so its team can stay unrated.
AppRowPool ==
    { StatRow(Row(1, 2, "LCK", "A", "Blue", 1, 60000, 1500), 2, 1, 1),
      StatRow(Row(1, 2, "LCK", "B", "Red",  0, 40000, 1500), 0 - 2, 0, 4),
      StatRow(Row(2, 1, "LCK", "A", "Red",  0, 45000, 2400), NaN, 0, 3),
      StatRow(Row(2, 1, "LCK", "C", "Blue", 1, 55000, 2400), NaN, 1, NaN),
      StatRow(Row(2, 1, "LPL", "B", "Blue", 1, NaN, 1200), 0, NaN, 2),
      StatRow(Row(2, 1, "LPL", "C", "Red",  0, 48000, 1200), 4, NaN, 0),
      StatRow(Row(3, 3, "LCK", "C", "Red",  0, 50000, 1800), 2, 0, 0),
      StatRow(Row(3, 3, "LPL", "A", "Blue", 1, 52000, 1800), 0, 1, 2) }

AppTables == {t \in SeqsUpTo(AppRowPool, MaxAppRows) : Distinct(t)}

\* The teams asked about: those of the tables and one no table names
QueryTeams == Teams \cup {"Z"}

\* The last_n arguments: None (0) and a window of one game
LastNs == {0, 1}

\* The top_n arguments: none, fewer than the teams, app.py's 20
TopNs == {0, 2, 20}

\* The league_teams arguments
LeagueTeamLists == SeqsUpTo(QueryTeams, 2)

InitApp ==
    /\ table \in AppTables
    /\ by_league \in BOOLEAN
    /\ pc = "start"
    /\ leagues = << >>
    /\ league = "-"
    /\ league_games = << >>
    /\ groups = << >>
    /\ elos = EmptyDict
    /\ history = << >>
    /\ all_elos = EmptyDict
    /\ all_history = << >>
    /\ history_df = << >>
    /\ step = NoStep
    /\ res = None
    /\ ExtIdle

\* project_matchup(team_a, team_b, games_df, elo_dict, last_n=last_n)
ProjectMatchup ==
    /\ pc = "done"
    /\ \E team_a \in QueryTeams, team_b \in QueryTeams, last_n \in LastNs :
          res' = [fn |-> "project_matchup", team_a |-> team_a,
                  team_b |-> team_b, last_n |-> last_n,
                  value |-> project_matchup(team_a, team_b, table, all_elos,
                                            last_n)]
    /\ pc' = "page"
    /\ UNCHANGED <<table, by_league, leagues, league, league_games, groups,
                   elos, history, all_elos, all_history, history_df, step>>
    /\ UNCHANGED ext

\* global_power_rankings(games_df, elo_dict, top_n=top_n)
GlobalPowerRankings ==
    /\ pc = "done"
    /\ \E top_n \in TopNs :
          res' = [fn |-> "global_power_rankings", top_n |-> top_n,
                  value |-> global_power_rankings(table, all_elos, top_n)]
    /\ pc' = "page"
    /\ UNCHANGED <<table, by_league, leagues, league, league_games, groups,
                   elos, history, all_elos, all_history, history_df, step>>
    /\ UNCHANGED ext

\* get_league_elo_rankings(elo_dict, league_teams)
LeagueEloRankings ==
    /\ pc = "done"
    /\ \E league_teams \in LeagueTeamLists :
          res' = [fn |-> "get_league_elo_rankings",
                  league_teams |-> league_teams,
                  value |-> get_league_elo_rankings(all_elos, league_teams)]
    /\ pc' = "page"
    /\ UNCHANGED <<table, by_league, leagues, league, league_games, groups,
                   elos, history, all_elos, all_history, history_df, step>>
    /\ UNCHANGED ext

\* pages/3_Teams.py: compute_team_profile(selected_team, games_df, last_n)
\* and get_playstyle_label of the profile
TeamProfile ==
    /\ pc = "done"
    /\ \E team \in QueryTeams, last_n \in LastNs :
          LET profile == compute_team_profile(team, table, last_n)
          IN  res' = [fn |-> "compute_team_profile", team |-> team,
                      last_n |-> last_n, value |-> profile,
                      playstyle |-> get_playstyle_label(profile)]
    /\ pc' = "page"
    /\ UNCHANGED <<table, by_league, leagues, league, league_games, groups,
                   elos, history, all_elos, all_history, history_df, step>>
    /\ UNCHANGED ext

NextApp ==
    \/ Call
    \/ BeginPartition
    \/ SkipGame
    \/ PlayGame
    \/ EndPartition
    \/ Return
    \/ ProjectMatchup
    \/ GlobalPowerRankings
    \/ LeagueEloRankings
    \/ TeamProfile

SpecApp == InitApp /\ [][NextApp]_vars

----------------------------------------------------------------------------
(* The projector and the ranker as functions of a table and a mapping *)

\* Team-level rows with statistics: the rows of A and B in game 1 carry the
\* same statistics, those of game 2 differ
ProjRowPool ==
    { StatRow(Row(1, 1, "LCK", "A", "Blue", 1, 60000, 1500), 2, 1, 1),
      StatRow(Row(1, 1, "LCK", "B", "Red",  0, 40000, 1500), 2, 1, 1),
      StatRow(Row(2, 2, "LCK", "C", "Blue", 1, 55000, 2400), 0 - 2, 0, 4),
      StatRow(Row(2, 2, "LCK", "A", "Red",  0, 45000, 2400), NaN, 0, 3) }

ProjTables == {t \in SeqsUpTo(ProjRowPool, MaxAppRows) : Distinct(t)}

\* The rating mappings: A and B are unrated or rated 1500.0, 1500.1 or
\* 1700.0; C is unrated
EloDicts ==
    LET rated == {STARTING_ELO, STARTING_ELO + RU \div 10, STARTING_ELO + 200 * RU}
    IN  UNION {[T -> rated] : T \in SUBSET {"A", "B"}}

\* A table and a rating mapping are at hand; a function is about to be
\* applied to them
InitProj ==
    /\ table \in ProjTables
    /\ all_elos \in EloDicts
    /\ by_league = FALSE
    /\ pc = "math"
    /\ leagues = << >>
    /\ league = "-"
    /\ league_games = << >>
    /\ groups = << >>
    /\ elos = EmptyDict
    /\ history = << >>
    /\ all_history = << >>
    /\ history_df = << >>
    /\ step = NoStep
    /\ res = None
    /\ ExtIdle

\* project_matchup(team_a, team_b, games_df, elo_dict, last_n)
ApplyProjection ==
    /\ pc = "math"
    /\ \E team_a \in QueryTeams, team_b \in QueryTeams, last_n \in LastNs :
          res' = [fn |-> "project_matchup", team_a |-> team_a,
                  team_b |-> team_b, last_n |-> last_n,
                  value |-> project_matchup(team_a, team_b, table, all_elos,
                                            last_n)]
    /\ pc' = "applied"
    /\ UNCHANGED <<table, by_league, leagues, league, league_games, groups,
                   elos, history, all_elos, all_history, history_df, step>>
    /\ UNCHANGED ext

\* global_power_rankings(games_df, elo_dict, top_n)
ApplyRankings ==
    /\ pc = "math"
    /\ \E top_n \in TopNs :
          res' = [fn |-> "global_power_rankings", top_n |-> top_n,
                  value |-> global_power_rankings(table, all_elos, top_n)]
    /\ pc' = "applied"
    /\ UNCHANGED <<table, by_league, leagues, league, league_games, groups,
                   elos, history, all_elos, all_history, history_df, step>>
    /\ UNCHANGED ext

NextProj ==
    \/ ApplyProjection
    \/ ApplyRankings

SpecProj == InitProj /\ [][NextProj]_vars

----------------------------------------------------------------------------
(* Properties of the rating engine *)

\* The game compute_elo rated last, and the rating change of each side:
\* the side's team's rating after the update minus its rating before
BlueDelta == elos[step.blue_team] - step.elo_blue
RedDelta == elos[step.red_team] - step.elo_red

\* C1 as stated: for every game that compute_elo processes, the rating
\* deltas of the two sides sum to exactly zero.  (Stated for the games that
\* have a Blue and a Red row and one winner: it fails among these already.)
C1_ConservationEveryGame ==
    (/\ step.kind = "game"
     /\ step.blue_row.side = "Blue" /\ step.red_row.side = "Red"
     /\ step.blue_row.result + step.red_row.result = 1)
    => BlueDelta + RedDelta = 0

\* C1, amended: for every game that compute_elo processes and whose two rows
\* name different teams, the sum of the two teams' rating deltas (rating
\* after the update minus rating before) is exactly zero, for every outcome,
\* gold and game-length value.
C1_Conservation ==
    (step.kind = "game" /\ step.blue_team # step.red_team)
        => BlueDelta + RedDelta = 0

\* A game between two teams, won by Red by a margin, has moved both ratings
C1_Witness ==
    /\ step.kind = "game"
    /\ step.blue_team # step.red_team
    /\ step.actual_red = 1
    /\ step.mov > 100
    /\ BlueDelta < 0
    /\ RedDelta > 0

\* x + y = 1 for two fractions
SumsToOne(x, y) == x.num * y.den + y.num * x.den = x.den * y.den

\* C8: expected_win_prob(a, b) + expected_win_prob(b, a) = 1 for all ratings
\* a and b, and the expected scores of the two sides of a game rated by
\* compute_elo sum to 1.
C8_ExpectedSumsToOne ==
    /\ res.fn = "expected_win_prob"
          => SumsToOne(res.value, expected_win_prob(res.elo_b, res.elo_a))
    /\ step.kind = "game"
          => /\ SumsToOne(step.exp_blue, step.exp_red)
             /\ SumsToOne(step.exp_blue,
                          expected_win_prob(step.elo_red, step.elo_blue))

\* expected_win_prob was applied to a favourite: its score is above 1/2
C8_Witness ==
    /\ res.fn = "expected_win_prob"
    /\ res.elo_a > res.elo_b
    /\ 2 * res.value.num > res.value.den

\* C9: _margin_multiplier returns a value in [1.0, 2.5] for every finite
\* non-negative winner gold, loser gold and game length, and exactly 1.0 when
\* either gold value is missing or the combined gold is zero.
C9_MarginRange ==
    res.fn = "margin_multiplier"
        => /\ 100 <= res.value
           /\ res.value <= 250
           /\ (\/ res.winner_gold = NaN
               \/ res.loser_gold = NaN
               \/ res.winner_gold + res.loser_gold = 0) => res.value = 100

\* A stomp in a short game: the multiplier is at its cap
C9_Witness ==
    /\ res.fn = "margin_multiplier"
    /\ res.winner_gold # NaN /\ res.loser_gold # NaN
    /\ res.game_length # NaN
    /\ res.value = 250

----------------------------------------------------------------------------
(* Properties of the order of processing and of the partitions *)

GameIds(df) == {df[i].gameid : i \in 1..Len(df)}
Without(df, g) == SelectSeq(df, LAMBDA r : r.gameid # g)
TeamEntries(hist, t) == SelectSeq(hist, LAMBDA h : h.team = t)

\* The same rating of team t in two mappings: absent from both, or in both
\* with one value
SameRating(d, e, t) ==
    /\ (t \in DOMAIN d) <=> (t \in DOMAIN e)
    /\ t \in DOMAIN d => d[t] = e[t]

\* A well-formed game: a Blue and a Red row of two teams, of one date and
\* one league, with complementary results
WellFormedGame(rows) ==
    /\ Len(rows) = 2
    /\ {rows[1].side, rows[2].side} = {"Blue", "Red"}
    /\ rows[1].result + rows[2].result = 1
    /\ rows[1].teamname # rows[2].teamname
    /\ rows[1].date = rows[2].date
    /\ rows[1].league = rows[2].league

\* A table of well-formed games only
WellFormedTable(df) == \A g \in GameIds(df) : WellFormedGame(GroupRows(df, g))

\* The group of a pending game id of the running compute_elo
Pending(i) == GroupRows(GroupSource(league_games), groups[i])

\* C2 as stated: compute_elo applies the updates in ascending date order:
\* once the update of a well-formed game is applied, no well-formed game of
\* an earlier date is still to be applied in that partition.
C2_AscendingDateOrder ==
    (/\ pc = "games"
     /\ step.kind = "game"
     /\ WellFormedGame(<<step.blue_row, step.red_row>>))
    => \A i \in 1..Len(groups) :
          WellFormedGame(Pending(i))
              => Pending(i)[1].date >= step.blue_row.date

TeamIndex(t) == IF t = "A" THEN 0 ELSE IF t = "B" THEN 1 ELSE 2
LeagueIndex(lg) == IF lg = "LCK" THEN 0 ELSE 1

\* The rows of a table in one fixed order of ascending date, whatever order
\* the table holds them in
PreSorted(df) ==
    SortByKey(df, [i \in 1..Len(df) |->
        ((((df[i].date * 4 + df[i].gameid) * 2 + LeagueIndex(df[i].league)) * 4
            + TeamIndex(df[i].teamname)) * 2 + SideRank(df[i].side)) * 2
            + df[i].result])

\* C3 as stated: for any order of the rows, compute_all_elo returns the
\* ratings and the history it returns for the same rows pre-sorted by date.
\* (Stated for the tables of well-formed games: it fails among these already.)
C3_RowOrderInsensitive ==
    (pc = "done" /\ WellFormedTable(table))
    => LET sorted == compute_all_elo(PreSorted(table), by_league)
       IN  /\ all_elos = sorted.elos
           /\ history_df = sorted.history

\* C4: a group of one row or of three or more rows is skipped without effect:
\* the iteration changes no rating, adds no team and appends no history
\* entry, and the loop goes on to the next group.
C4_SkipHasNoEffect ==
    [][(/\ pc = "games"
        /\ groups # << >>
        /\ Len(GroupRows(GroupSource(league_games), Head(groups))) # 2)
       => (/\ elos' = elos
           /\ history' = history
           /\ pc' = "games"
           /\ groups' = Tail(groups))]_vars

\* A malformed group was skipped after a game had been rated
C4_Witness ==
    /\ pc = "games"
    /\ step.kind = "skip"
    /\ Len(GroupRows(league_games, step.gameid)) # 2
    /\ Len(history) = 2
    /\ Cardinality(DOMAIN elos) = 2

\* Three rows of three teams, of one date, one of them the winner
ThreeTeamRows(rows) ==
    /\ Len(rows) = 3
    /\ Cardinality({rows[i].teamname : i \in 1..3}) = 3
    /\ Cardinality({rows[i].date : i \in 1..3}) = 1
    /\ rows[1].result + rows[2].result + rows[3].result = 1

\* C5 as stated: in per-league mode a game id with 3 rows is excluded: the
\* ratings of its three teams are those computed with its rows absent,
\* whichever leagues the three rows carry.
C5_ThreeRowGameExcluded ==
    (pc = "done" /\ by_league)
    => \A g \in GameIds(table) :
          ThreeTeamRows(GroupRows(table, g))
          => LET absent == compute_all_elo(Without(table, g), TRUE)
             IN  \A i \in 1..3 :
                    SameRating(all_elos, absent.elos,
                               GroupRows(table, g)[i].teamname)

\* The leagues in which team t has rows
LeaguesOf(df, t) == {df[i].league : i \in {j \in 1..Len(df) : df[j].teamname = t}}

\* C6: in per-league mode the rating and the history entries of a team that
\* has rows in one league only are those computed from the rows of that
\* league alone, whatever the rows of the other leagues are.
C6_LeagueIsolation ==
    (pc = "done" /\ by_league)
    => \A t \in Teams : \A lg \in Leagues :
          LeaguesOf(table, t) = {lg}
          => LET own == compute_all_elo(
                            SelectSeq(table, LAMBDA r : r.league = lg), TRUE)
             IN  /\ SameRating(all_elos, own.elos, t)
                 /\ TeamEntries(history_df, t) = TeamEntries(own.history, t)

\* A team rated in its only league, in a table where another league has a
\* rated game too
C6_Witness ==
    /\ pc = "done"
    /\ by_league
    /\ \E t \in Teams : \E lg \in Leagues :
          /\ LeaguesOf(table, t) = {lg}
          /\ t \in DOMAIN all_elos
          /\ \E i \in 1..Len(history_df) : history_df[i].league # lg

----------------------------------------------------------------------------
(* Properties of the history *)

\* The game ids compute_elo has visited so far
Visited == GameIds(league_games) \ {groups[i] : i \in 1..Len(groups)}

\* The positions of the entries of game id g in the local history
EntriesOf(g) == {i \in 1..Len(history) : history[i].gameid = g}

\* The history while compute_elo runs: two entries for every visited group of
\* two rows, one per row and naming the row's team, and none for another
\* group.
C7_EntriesPerGame ==
    pc = "games"
    => /\ \A g \in Visited :
             LET rows == GroupRows(league_games, g)
             IN  IF Len(rows) = 2
                 THEN /\ Cardinality(EntriesOf(g)) = 2
                      /\ \E i, j \in EntriesOf(g) :
                            /\ i # j
                            /\ history[i].team = rows[1].teamname
                            /\ history[j].team = rows[2].teamname
                 ELSE EntriesOf(g) = {}
       /\ \A i \in 1..Len(history) : history[i].gameid \in Visited

\* The number of occurrences of an entry in a history
Count(hist, e) == Cardinality({i \in 1..Len(hist) : hist[i] = e})

\* The returned history holds the entries of the partitions, each as often
\* as they do
C7_EntriesKept ==
    pc = "done"
    => /\ Len(history_df) = Len(all_history)
       /\ \A i \in 1..Len(all_history) :
             Count(history_df, all_history[i]) = Count(all_history, all_history[i])

\* A step of the loop of compute_elo keeps the entries it found and, when it
\* rates a game, appends two entries that hold the ratings the mapping holds
\* after the update, in tenths
C7_Append ==
    (pc = "games" /\ pc' = "games")
    => /\ Len(history') \in {Len(history), Len(history) + 2}
       /\ SubSeq(history', 1, Len(history)) = history
       /\ \A i \in (Len(history) + 1)..Len(history') :
             history'[i].elo = Round1(elos'[history'[i].team])

\* The merge of a partition keeps the entries already merged and adds those
\* of the partition with their team, rating, date and game id
C7_Merge ==
    (pc = "games" /\ pc' = "league")
    => /\ Len(all_history') = Len(all_history) + Len(history)
       /\ SubSeq(all_history', 1, Len(all_history)) = all_history
       /\ \A i \in 1..Len(history) :
             LET h == all_history'[Len(all_history) + i]
             IN  [team |-> h.team, elo |-> h.elo, date |-> h.date,
                  gameid |-> h.gameid] = history[i]

\* C7: the history holds exactly one entry per side per processed game (two
\* per group of two rows, none for a skipped group); each entry holds the
\* team's rating right after that game's update, rounded to 1 decimal; and
\* entries once written are never changed by later games.
C7_History ==
    /\ [](C7_EntriesPerGame /\ C7_EntriesKept)
    /\ [][C7_Append /\ C7_Merge]_vars

\* Two games were rated and the first entry no longer shows its team's
\* current rating: it kept the rating of the time it was written
C7_Witness ==
    /\ pc = "games"
    /\ Len(history) = 4
    /\ history[1].team \in DOMAIN elos
    /\ history[1].elo # Round1(elos[history[1].team])

----------------------------------------------------------------------------
(* Properties of the defaults for teams without a rating *)

\* A team that neither the rating mapping nor the match table names
Unknown(t) == t \notin DOMAIN all_elos /\ t \notin TeamNames(table)

ZeroProfile == [f \in FactorSet |-> 0]

\* C10: a team that is absent from the rating mapping is never an error:
\* it enters its first processed game at rating 1500; project_matchup,
\* global_power_rankings and get_league_elo_rankings use 1500 for it; and
\* project_matchup on a team unknown to both the mapping and the match table
\* returns a result (with the all-zero profile for that team) instead of
\* raising.
C10_AbsentTeamDefaults ==
    /\ step.kind = "game" =>
          /\ step.blue_team \notin DOMAIN step.elos_in
                => step.elo_blue = STARTING_ELO
          /\ step.red_team \notin DOMAIN step.elos_in
                => step.elo_red = STARTING_ELO
    /\ res.fn = "project_matchup" =>
          /\ res.team_a \notin DOMAIN all_elos
                => res.value.elo_a = Round1(STARTING_ELO)
          /\ res.team_b \notin DOMAIN all_elos
                => res.value.elo_b = Round1(STARTING_ELO)
          /\ Unknown(res.team_a) =>
                /\ res.value.profile_a = ZeroProfile
                /\ res.value.playstyle_a = "Balanced"
                /\ res.value.strengths_a = <<"Balanced">>
                /\ res.value.weaknesses_a = <<"None">>
          /\ Unknown(res.team_b) =>
                /\ res.value.profile_b = ZeroProfile
                /\ res.value.playstyle_b = "Balanced"
                /\ res.value.strengths_b = <<"Balanced">>
                /\ res.value.weaknesses_b = <<"None">>
          /\ (Unknown(res.team_a) /\ Unknown(res.team_b)) =>
                /\ res.value.win_prob_a = 500
                /\ res.value.win_prob_b = 500
                /\ res.value.composite_a = 0
                /\ res.value.composite_b = 0
                /\ res.value.elo_edge = res.team_b
    /\ res.fn = "global_power_rankings" =>
          /\ table # << >> => res.value.raised = "none"
          /\ \A i \in 1..Len(res.value.rows) :
                LET row == res.value.rows[i]
                IN  row.team \notin DOMAIN all_elos =>
                      /\ row.elo = Round1(STARTING_ELO)
                      /\ row.composite =
                            RoundDiv(WeightedFactors(FACTOR_WEIGHTS,
                                compute_team_profile(row.team, table, 0)), 100)
    /\ res.fn = "get_league_elo_rankings" =>
          /\ Len(res.value) = Len(res.league_teams)
          /\ \A i \in 1..Len(res.value) :
                res.value[i][1] \notin DOMAIN all_elos
                    => res.value[i][2] = STARTING_ELO

\* project_matchup has projected a team no table and no mapping names
\* against a team rated above 1500: the unknown team is given 1500.0 and the
\* all-zero profile, and the rated team has the edge
C10_Witness ==
    /\ res.fn = "project_matchup"
    /\ Unknown(res.team_a)
    /\ res.team_b \in DOMAIN all_elos
    /\ all_elos[res.team_b] > STARTING_ELO
    /\ res.value.elo_a = Round1(STARTING_ELO)
    /\ res.value.profile_a = ZeroProfile
    /\ res.value.elo_edge = res.team_b
    /\ res.value.win_prob_a < 500

----------------------------------------------------------------------------
(* Properties of the team profiles *)

\* C11: for a team with zero rows in the match table, with or without a
\* window, compute_team_profile returns 0.0 for every one of the four
\* factors, and get_playstyle_label of that profile is "Balanced".
C11_NoRowsZeroProfile ==
    (res.fn = "compute_team_profile" /\ TeamRows(table, res.team) = << >>)
        => /\ DOMAIN res.value = FactorSet
           /\ \A f \in FactorSet : res.value[f] = 0
           /\ res.playstyle = "Balanced"

\* The profile of a team without rows was asked for, with a window, on a
\* table whose other teams have profiles that are not zero
C11_Witness ==
    /\ res.fn = "compute_team_profile"
    /\ TeamRows(table, res.team) = << >>
    /\ res.last_n = 1
    /\ \E t \in TeamNames(table) :
          compute_team_profile(t, table, 0) # ZeroProfile
    /\ res.value = ZeroProfile
    /\ res.playstyle = "Balanced"

\* The rows compute_team_profile averages: the team's rows, or the last
\* last_n of them in table order when a window is given
WindowRows(team, df, last_n) ==
    IF last_n # 0 THEN TailRows(TeamRows(df, team), last_n)
    ELSE TeamRows(df, team)

\* The weighted sum of the z-scores of the applied columns of a factor and
\* the sum of the absolute weights of exactly those columns
WeightedZ(factor, team_df, df) ==
    LET cols == AppliedCols(factor, team_df, df)
    IN  SumOver(cols, [c \in cols |->
            ZScore(c, team_df, df) * FACTOR_COLS[factor][c]])

AppliedWeight(factor, team_df, df) ==
    LET cols == AppliedCols(factor, team_df, df)
    IN  SumOver(cols, [c \in cols |-> Abs(FACTOR_COLS[factor][c])])

\* C12 as stated: for every factor with an applied column, the profile score
\* is the sum over the applied columns of z-score times column weight,
\* divided by the sum of the absolute weights of exactly those columns, up to
\* the rounding to 3 decimals (one thousandth); so a factor whose only
\* applied column has weight 0.5 scores that column's z-score.
C12_WeightedAverage ==
    res.fn = "compute_team_profile" =>
        LET team_df == WindowRows(res.team, table, res.last_n)
        IN  \A f \in FactorSet :
              AppliedCols(f, team_df, table) # {} =>
                Abs(res.value[f]
                    - RoundDiv(WeightedZ(f, team_df, table),
                               AppliedWeight(f, team_df, table))) <= 1

\* The team's min(n, games played) most recent rows by date
MostRecentRows(team, df, n) == TailRows(SortValuesDate(TeamRows(df, team)), n)

\* No two rows of the team have one date
DistinctDates(team, df) ==
    LET rows == TeamRows(df, team)
    IN  \A i, j \in 1..Len(rows) : i # j => rows[i].date # rows[j].date

\* C13 as stated: when a window of N >= 1 games is given,
\* compute_team_profile averages exactly the team's min(N, games played)
\* most recent games by date, whatever the row order of the match table.
\* (Stated for teams whose games have different dates.)
C13_WindowMostRecent ==
    (/\ res.fn = "compute_team_profile"
     /\ res.last_n >= 1
     /\ TeamRows(table, res.team) # << >>
     /\ DistinctDates(res.team, table))
    => res.value =
         [f \in FactorSet |->
            FactorScore(f, MostRecentRows(res.team, table, res.last_n), table)]

\* C14: get_playstyle_label is a deterministic total function: every profile,
\* also one with missing factors, maps to exactly one of the seven labels,
\* namely the first label in the order Early Aggressor, Lane Kingdom,
\* Objective Focused, Team Fight Monsters, Vision Control, Late-Game Scaling,
\* Balanced whose predicate holds; "Balanced" is returned exactly when no
\* earlier predicate holds.
C14_FirstLabelWins ==
    res.fn = "get_playstyle_label" =>
        LET holds(i) == PlaystyleCondition(PlaystyleLabels[i], res.profile)
        IN  /\ Len(PlaystyleLabels) = 7
            /\ Cardinality({i \in 1..7 : PlaystyleLabels[i] = res.value}) = 1
            /\ \E i \in 1..7 :
                  /\ res.value = PlaystyleLabels[i]
                  /\ holds(i)
                  /\ \A j \in 1..(i - 1) : ~holds(j)
            /\ (res.value = "Balanced") <=> (\A j \in 1..6 : ~holds(j))

\* A profile without a team_fighting entry of which three predicates hold:
\* the label is that of the first
C14_Witness ==
    /\ res.fn = "get_playstyle_label"
    /\ "team_fighting" \notin DOMAIN res.profile
    /\ PlaystyleCondition("Early Aggressor", res.profile)
    /\ PlaystyleCondition("Lane Kingdom", res.profile)
    /\ PlaystyleCondition("Vision Control", res.profile)
    /\ res.value = "Early Aggressor"

----------------------------------------------------------------------------
(* Properties of the matchup projection *)

\* The elements of a list, and a list without a repeated element
Elems(l) == {l[i] : i \in 1..Len(l)}
NoRepeat(l) == Cardinality(Elems(l)) = Len(l)

\* A list names exactly the factors of the set F, or holds the single
\* placeholder when F is empty
ListsFactors(l, F, placeholder) ==
    /\ Len(l) >= 1
    /\ NoRepeat(l)
    /\ Elems(l) = IF F = {} THEN {placeholder} ELSE {Title(f) : f \in F}

\* C15: in every project_matchup result the lists strengths_a, weaknesses_a,
\* strengths_b and weaknesses_b are non-empty: a strengths list holds exactly
\* the factors whose score is > 0.3, or the single placeholder "Balanced"
\* when there is none; a weaknesses list holds exactly the factors whose
\* score is < -0.3, or the single placeholder "None" when there is none.
C15_ListsNeverEmpty ==
    res.fn = "project_matchup" =>
        LET v == res.value
            Strong(p) == {f \in FactorSet : p[f] > 300}
            Weak(p) == {f \in FactorSet : p[f] < 0 - 300}
        IN  /\ ListsFactors(v.strengths_a, Strong(v.profile_a), "Balanced")
            /\ ListsFactors(v.weaknesses_a, Weak(v.profile_a), "None")
            /\ ListsFactors(v.strengths_b, Strong(v.profile_b), "Balanced")
            /\ ListsFactors(v.weaknesses_b, Weak(v.profile_b), "None")

\* A projection of a team with two strengths and no weakness against a team
\* with weaknesses and no strength
C15_Witness ==
    /\ res.fn = "project_matchup"
    /\ Len(res.value.strengths_a) = 2
    /\ "Balanced" \notin Elems(res.value.strengths_a)
    /\ res.value.weaknesses_a = <<"None">>
    /\ res.value.strengths_b = <<"Balanced">>
    /\ "None" \notin Elems(res.value.weaknesses_b)

\* The rating project_matchup and global_power_rankings are handed for a team
RatingOf(t) == Get(all_elos, t, STARTING_ELO)

\* C16: when two teams have identical ratings (1500 or any equal value) and
\* identical profiles, project_matchup returns win_prob_a = win_prob_b = 0.5.
C16_EqualTeamsEven ==
    (/\ res.fn = "project_matchup"
     /\ RatingOf(res.team_a) = RatingOf(res.team_b)
     /\ res.value.profile_a = res.value.profile_b)
    => /\ res.value.win_prob_a = 500
       /\ res.value.win_prob_b = 500

\* Two different teams with rows in the table, the same rating of 1700 and
\* the same profile, which is not zero, were projected
C16_Witness ==
    /\ res.fn = "project_matchup"
    /\ res.team_a # res.team_b
    /\ TeamRows(table, res.team_a) # << >>
    /\ TeamRows(table, res.team_b) # << >>
    /\ RatingOf(res.team_a) = STARTING_ELO + 200 * RU
    /\ RatingOf(res.team_b) = STARTING_ELO + 200 * RU
    /\ res.value.profile_a = res.value.profile_b
    /\ res.value.profile_a # ZeroProfile
    /\ res.value.win_prob_a = 500

\* C17 as stated: when team A's rating is higher than team B's and their
\* profiles are identical, project_matchup returns win_prob_a > 0.5 and
\* elo_edge equal to team A's name.
C17_HigherRatedFavoured ==
    (/\ res.fn = "project_matchup"
     /\ RatingOf(res.team_a) > RatingOf(res.team_b)
     /\ res.value.profile_a = res.value.profile_b)
    => /\ res.value.win_prob_a > 500
       /\ res.value.elo_edge = res.team_a

\* C17, amended: when team A's rating is higher than team B's and their
\* profiles are identical, project_matchup returns elo_edge equal to team
\* A's name and win_prob_a >= 0.5, and win_prob_a > 0.5 when the ratings
\* differ by at least one point (as 1700 and 1500 do).
C17_HigherRatedNotUnderdog ==
    (/\ res.fn = "project_matchup"
     /\ RatingOf(res.team_a) > RatingOf(res.team_b)
     /\ res.value.profile_a = res.value.profile_b)
    => /\ res.value.elo_edge = res.team_a
       /\ res.value.win_prob_a >= 500
       /\ RatingOf(res.team_a) - RatingOf(res.team_b) >= RU
             => res.value.win_prob_a > 500

\* Team A rated 1700 was projected against team B rated 1500, both with rows
\* in the table and with the same profile, which is not zero
C17_Witness ==
    /\ res.fn = "project_matchup"
    /\ TeamRows(table, res.team_a) # << >>
    /\ TeamRows(table, res.team_b) # << >>
    /\ "B" \in DOMAIN all_elos
    /\ RatingOf(res.team_a) = STARTING_ELO + 200 * RU
    /\ RatingOf(res.team_b) = STARTING_ELO
    /\ res.value.profile_a = res.value.profile_b
    /\ res.value.profile_a # ZeroProfile
    /\ res.value.win_prob_a > 500
    /\ res.value.elo_edge = res.team_a

----------------------------------------------------------------------------
(* Properties of the power rankings *)

\* The composite global_power_rankings computes for a team of the table
CompositeOf(t) == PowerRow(t, table, all_elos).composite

\* The composites never increase from one row to the next
NonIncreasing(rows) ==
    \A i \in 1..(Len(rows) - 1) : rows[i].composite >= rows[i + 1].composite

\* C18 as stated: global_power_rankings called with top_n >= the number of
\* distinct teams of the match table returns every team exactly once, in an
\* order where the composite score never increases from one row to the next.
C18_EveryTeamOnce ==
    (/\ res.fn = "global_power_rankings"
     /\ res.top_n >= Cardinality(TeamNames(table)))
    => /\ res.value.raised = "none"
       /\ Len(res.value.rows) = Cardinality(TeamNames(table))
       /\ {res.value.rows[i].team : i \in 1..Len(res.value.rows)}
             = TeamNames(table)
       /\ NonIncreasing(res.value.rows)

\* C19 as stated: for any top_n >= 0 the leaderboard returned by
\* global_power_rankings has length min(top_n, number of teams), its rows
\* (row i has rank i) are different teams of the table, and no omitted team
\* has a composite greater than a returned one.
C19_TopNTruncation ==
    (res.fn = "global_power_rankings" /\ res.top_n >= 0)
    => LET rows == res.value.rows
           kept == {rows[i].team : i \in 1..Len(rows)}
       IN  /\ res.value.raised = "none"
           /\ Len(rows) = Min(res.top_n, Cardinality(TeamNames(table)))
           /\ Cardinality(kept) = Len(rows)
           /\ kept \subseteq TeamNames(table)
           /\ \A i \in 1..Len(rows) : rows[i].composite = CompositeOf(rows[i].team)
           /\ \A t \in TeamNames(table) \ kept :
                 \A i \in 1..Len(rows) : CompositeOf(t) <= rows[i].composite

\* The two statements on the tables that have a row
RankingsOfTeams ==
    table # << >> => (C18_EveryTeamOnce /\ C19_TopNTruncation)

----------------------------------------------------------------------------
(* Frame property of the engine *)

\* C20: no engine operation mutates the match table: after compute_all_elo,
\* compute_team_profile, project_matchup or global_power_rankings returns,
\* the input table has the same rows, the same row order and the same values
\* as before the call (no step of any of them changes it).
C20_TableNeverMutated == [][table' = table]_vars

\* The ratings of a table that is not in date order were computed over the
\* whole table, and then the rankings: the table is still not in date order
C20_Witness ==
    /\ res.fn = "global_power_rankings"
    /\ res.value.raised = "none"
    /\ by_league = FALSE
    /\ DOMAIN all_elos # {}
    /\ table # SortValuesDate(table)

----------------------------------------------------------------------------
(* Operations of Python on JSON values.  A call returns a value or raises  *)
(* an exception.                                                           *)

Ok(v) == [raised |-> "none", value |-> v]
Raise(e) == [raised |-> e]

\* The rest of a function after a call in it: an exception of the call
\* propagates, a returned value is handed on
Then(r, rest(_)) == IF r.raised # "none" THEN r ELSE rest(r.value)

\* bool(x)
Truthy(x) ==
    CASE x.t = "null" -> FALSE
      [] x.t = "str" -> x.s # ""
      [] x.t = "num" -> x.n # 0
      [] x.t = "list" -> Len(x.items) > 0
      [] x.t = "dict" -> DOMAIN x.d # {}

\* x == s for a str literal s
IsStr(x, s) == x.t = "str" /\ x.s = s

\* The members of a finite set in some order
RECURSIVE SetToSeq(_)
SetToSeq(S) ==
    IF S = {} THEN << >>
    ELSE LET k == CHOOSE x \in S : TRUE IN <<k>> \o SetToSeq(S \ {k})

\* The characters of the str bodies the providers are given
Chars(s) ==
    CASE s = "" -> << >>
      [] s = "down" -> <<"d", "o", "w", "n">>

\* for item in x: the items of a list, the keys of a dict (each a str; the
\* model does not keep their insertion order), the characters of a str
Iter(x) ==
    CASE x.t = "list" -> Ok(x.items)
      [] x.t = "dict" ->
            LET keys == SetToSeq(DOMAIN x.d)
            IN  Ok([i \in 1..Len(keys) |-> JStr(keys[i])])
      [] x.t = "str" ->
            LET cs == Chars(x.s) IN Ok([i \in 1..Len(cs) |-> JStr(cs[i])])
      [] OTHER -> Raise("TypeError")

\* x[0]
Index0(x) ==
    CASE x.t = "list" ->
            IF Len(x.items) > 0 THEN Ok(x.items[1]) ELSE Raise("IndexError")
      [] x.t = "str" ->
            IF Len(Chars(x.s)) > 0 THEN Ok(JStr(Chars(x.s)[1]))
            ELSE Raise("IndexError")
      [] x.t = "dict" -> Raise("KeyError")
      [] OTHER -> Raise("TypeError")

\* float(s) for a str, in thousandths
FloatOfText(s) ==
    CASE s = "0.65" -> Ok(650)
      [] s = "0.35" -> Ok(350)
      [] s = "0.2" -> Ok(200)
      [] s = "0" -> Ok(0)
      [] s = "1200" -> Ok(1200000)
      [] OTHER -> Raise("ValueError")

\* float(x), in thousandths
Float(x) ==
    CASE x.t = "str" -> FloatOfText(x.s)
      [] x.t = "num" -> Ok(x.n)
      [] OTHER -> Raise("TypeError")

\* json.loads(s) for a str s
JsonLoadsText(s) ==
    CASE s = "[\"0.65\", \"0.35\"]" -> Ok(JList(<<JStr("0.65"), JStr("0.35")>>))
      [] s = "[\"0.35\", \"0.65\"]" -> Ok(JList(<<JStr("0.35"), JStr("0.65")>>))
      [] s = "[\"0.2\", \"0.8\"]" -> Ok(JList(<<JStr("0.2"), JStr("0.8")>>))
      [] s = "[\"0\", \"1\"]" -> Ok(JList(<<JStr("0"), JStr("1")>>))
      [] s = "[\"x\"]" -> Ok(JList(<<JStr("x")>>))
      [] s = "[]" -> Ok(JList(<< >>))
      [] s = "[null]" -> Ok(JList(<<JNull>>))
      [] s = "5" -> Ok(JNum(5000))
      [] s = "{}" -> Ok(JDict(EmptyDict))
      [] OTHER -> Raise("JSONDecodeError")

\* json.loads(x): a value that is no str (bytes, bytearray) is a TypeError
JsonLoads(x) == IF x.t = "str" THEN JsonLoadsText(x.s) ELSE Raise("TypeError")

----------------------------------------------------------------------------
(* polymarket.py: the odds of the season-winner markets.  Odds and the     *)
(* other figures of a market are integer numbers of thousandths.           *)

\* The items of POLYMARKET_NAME_MAP
POLYMARKET_NAME_MAP ==
    << <<"Gen.G Esports", "Gen.G">>,
       <<"Hanwha Life Esports", "Hanwha Life Esports">>,
       <<"Nongshim RedForce", "Nongshim RedForce">>,
       <<"KT Rolster", "KT Rolster">>,
       <<"Dplus", "Dplus KIA">>,
       <<"FEARX", "FEARX">>,
       <<"Freecs", "Kwangdong Freecs">>,
       <<"BRION", "OKSavingsBank BRION">>,
       <<"DRX", "DRX">>,
       <<"T1", "T1">>,
       <<"Bilibili Gaming", "Bilibili Gaming">>,
       <<"Top Esports", "Top Esports">>,
       <<"JD Gaming", "JDG Intel">>,
       <<"EDward Gaming", "EDward Gaming">>,
       <<"Weibo Gaming", "Weibo Gaming">>,
       <<"LNG Esports", "LNG Esports">>,
       <<"ThunderTalk Gaming", "ThunderTalk Gaming">>,
       <<"FunPlus Phoenix", "FunPlus Phoenix">>,
       <<"Invictus Gaming", "Invictus Gaming">>,
       <<"Royal Never Give Up", "Royal Never Give Up">>,
       <<"Team WE", "Team WE">>,
       <<"Oh My God", "Oh My God">>,
       <<"TT Gaming", "TT Gaming">>,
       <<"Anyone's Legend", "Anyone's Legend">>,
       <<"Rare Atom", "Rare Atom">>,
       <<"Ultra Prime", "Ultra Prime">>,
       <<"Ninjas in Pyjamas", "Ninjas in Pyjamas">> >>

\* POLYMARKET_NAME_MAP.get(pm_name, pm_name)
EsportsName(pm_name) ==
    LET hits == SelectSeq(POLYMARKET_NAME_MAP, LAMBDA kv : kv[1] = pm_name)
    IN  IF Len(hits) > 0 THEN hits[1][2] ELSE pm_name

\* The items of LEAGUE_MARKET_MAP, in the order of the dict
LEAGUE_MARKET_MAP == << <<"LCK", "lck">>, <<"LPL", "lpl">> >>

\* The patterns p with p.lower() in title.lower(), for the titles the
\* providers are given
PatternsIn(title) ==
    CASE title = "LCK 2026 Season Winner" -> {"lck"}
      [] title = "LPL 2026 Season Winner" -> {"lpl"}
      [] title = "LCK vs LPL Rift Rivals" -> {"lck", "lpl"}
      [] OTHER -> {}

\* fetch_polymarket_odds, lines 100-104: the league of an event title; a
\* title that is no str has no lower()
EventLeague(title) ==
    IF title.t # "str" THEN Raise("AttributeError")
    ELSE LET hits == SelectSeq(LEAGUE_MARKET_MAP,
                               LAMBDA kv : kv[2] \in PatternsIn(title.s))
         IN  Ok(IF Len(hits) > 0 THEN hits[1][1] ELSE "")

\* fetch_polymarket_odds, lines 119-121: the body of the try statement
ParseOdds(prices_str) ==
    Then(JsonLoads(prices_str), LAMBDA prices :
    Then(Index0(prices), LAMBDA first :
    Float(first)))

\* The exceptions the except clause of line 122 catches
CaughtByParse == {"JSONDecodeError", "IndexError", "ValueError"}

\* market.get(key, 0) or 0, where the value is a number or null
NumberOrZero(market, key) ==
    LET x == Get(market.d, key, JNum(0)) IN IF Truthy(x) THEN x.n ELSE 0

\* float(market.get(key, 0) or 0)
FloatOrZero(market, key) ==
    LET x == Get(market.d, key, JNum(0)) IN IF Truthy(x) THEN Float(x) ELSE Ok(0)

\* fetch_polymarket_odds, lines 110-142: one iteration of the loop over the
\* markets of an event
MarketStep(team_odds, market, event_league) ==
    IF market.t # "dict" THEN Raise("AttributeError")
    ELSE
    LET pm_name == Get(market.d, "groupItemTitle", JStr(""))
        prices_str == Get(market.d, "outcomePrices", JStr(""))
        odds == ParseOdds(prices_str)
    IN  IF ~Truthy(pm_name) \/ IsStr(pm_name, "Other") THEN Ok(team_odds)
        ELSE IF ~Truthy(prices_str) THEN Ok(team_odds)
        ELSE IF odds.raised \in CaughtByParse THEN Ok(team_odds)
        ELSE
        Then(odds, LAMBDA price :
        IF price <= 0 THEN Ok(team_odds)
        ELSE
        Then(FloatOrZero(market, "volume"), LAMBDA volume :
        Then(FloatOrZero(market, "liquidity"), LAMBDA liquidity :
        Then(FloatOrZero(market, "bestBid"), LAMBDA best_bid :
        Then(FloatOrZero(market, "bestAsk"), LAMBDA best_ask :
        Then(FloatOrZero(market, "spread"), LAMBDA spread :
        Ok(Put(team_odds, EsportsName(pm_name.s),
               [odds |-> price,
                polymarket_name |-> pm_name.s,
                league |-> event_league,
                change_1w |-> NumberOrZero(market, "oneWeekPriceChange"),
                change_1mo |-> NumberOrZero(market, "oneMonthPriceChange"),
                volume |-> volume,
                liquidity |-> liquidity,
                best_bid |-> best_bid,
                best_ask |-> best_ask,
                spread |-> spread]))))))))

\* fetch_polymarket_odds, lines 109-142: the loop over the markets
RECURSIVE MarketLoop(_, _, _)
MarketLoop(team_odds, markets, event_league) ==
    IF markets = << >> THEN Ok(team_odds)
    ELSE Then(MarketStep(team_odds, Head(markets), event_league),
              LAMBDA odds : MarketLoop(odds, Tail(markets), event_league))

\* fetch_polymarket_odds, lines 96-142: one iteration of the loop over the
\* events
EventStep(team_odds, event) ==
    IF event.t # "dict" THEN Raise("AttributeError")
    ELSE
    LET title == Get(event.d, "title", JStr(""))
        markets == Get(event.d, "markets", JList(<< >>))
    IN  Then(EventLeague(title), LAMBDA event_league :
        IF event_league = "" THEN Ok(team_odds)
        ELSE
        Then(Iter(markets), LAMBDA items :
        MarketLoop(team_odds, items, event_league)))

\* fetch_polymarket_odds, lines 95-142: the loop over the events
RECURSIVE EventLoop(_, _)
EventLoop(team_odds, events) ==
    IF events = << >> THEN Ok(team_odds)
    ELSE Then(EventStep(team_odds, Head(events)),
              LAMBDA odds : EventLoop(odds, Tail(events)))

\* What the request of lines 86-89 can end in: an exception of urlopen or
\* of read, an exception of json.loads on a body that is no JSON, or the
\* parsed body
TransportFailures == {"URLError", "HTTPError", "timeout"}
Failed(e) == [failed |-> e]
Parsed(v) == [failed |-> "none", body |-> v]

\* fetch_polymarket_odds(), on the outcome of its request
fetch_polymarket_odds(outcome) ==
    IF outcome.failed # "none" THEN Ok(EmptyDict)
    ELSE Then(Iter(outcome.body), LAMBDA events : EventLoop(EmptyDict, events))

\* A slip in the league: the second team's league preferred
LeagueOfSecond(odds_a, odds_b) ==
    IF odds_b # None THEN odds_b.league ELSE odds_a.league

\* get_team_odds, line 170: (odds_a or odds_b or {}).get("league", ""), the
\* league of the first of the two lookups that has data
LeagueOfFirst(odds_a, odds_b) ==
    IF odds_a # None THEN odds_a.league ELSE odds_b.league

\* get_team_odds(team_a, team_b), on what fetch_polymarket_odds returned
\* (None is the value of dict.get for a team without data; a record of
\* odds is never empty, so it is true)
get_team_odds(team_a, team_b, all_odds) ==
    LET odds_a == Get(all_odds, team_a, None)
        odds_b == Get(all_odds, team_b, None)
    IN  IF odds_a = None /\ odds_b = None THEN None
        ELSE [team_a |-> odds_a, team_b |-> odds_b,
              league |-> LeagueOfFirst(odds_a, odds_b)]

----------------------------------------------------------------------------
(* The market provider: what a request of fetch_polymarket_odds can meet   *)

\* A market of the Gamma API with the two fields the fetcher needs
Market(name, prices) ==
    JDict([groupItemTitle |-> name, outcomePrices |-> prices])

\* Markets: well-formed ones (one with the optional figures, as str and as
\* number), the placeholder "Other", and one defect each: no name, no
\* prices, prices that are no JSON, an empty list, a list of a non-number,
\* a zero price, a number, a list of null, an object, prices that are a
\* list instead of a str, a volume that is no number, a market that is null
MarketPool ==
    { JDict([groupItemTitle |-> JStr("Gen.G Esports"),
             outcomePrices |-> JStr("[\"0.65\", \"0.35\"]"),
             oneWeekPriceChange |-> JNum(20),
             oneMonthPriceChange |-> JNull,
             volume |-> JStr("1200"),
             bestBid |-> JNum(640)]),
      Market(JStr("T1"), JStr("[\"0.35\", \"0.65\"]")),
      Market(JStr("Other"), JStr("[\"0.2\", \"0.8\"]")),
      Market(JNull, JStr("[\"0.2\", \"0.8\"]")),
      Market(JStr("DRX"), JStr("")),
      Market(JStr("DRX"), JNull),
      Market(JStr("DRX"), JStr("N/A")),
      Market(JStr("DRX"), JStr("[]")),
      Market(JStr("DRX"), JStr("[\"x\"]")),
      Market(JStr("DRX"), JStr("[\"0\", \"1\"]")),
      Market(JStr("DRX"), JStr("5")),
      Market(JStr("DRX"), JStr("[null]")),
      Market(JStr("DRX"), JStr("{}")),
      Market(JStr("DRX"), JList(<<JStr("0.2"), JStr("0.8")>>)),
      JDict([groupItemTitle |-> JStr("DRX"),
             outcomePrices |-> JStr("[\"0.2\", \"0.8\"]"),
             volume |-> JStr("n/a")]),
      JNull }

MaxMarkets == 2

MarketLists == SeqsUpTo(MarketPool, MaxMarkets)

Event(title, markets) == JDict([title |-> title, markets |-> markets])

LckEvent(ml) == Event(JStr("LCK 2026 Season Winner"), JList(ml))

GenGMarket == Market(JStr("Gen.G Esports"), JStr("[\"0.2\", \"0.8\"]"))

\* Further events: another league, a title naming two leagues, an event of
\* no league with markets that cannot be iterated, and one defect each: no
\* title, a title that is null, markets that are null, markets that are an
\* object, an event that is null
OtherEvents ==
    { Event(JStr("LPL 2026 Season Winner"),
            JList(<<Market(JStr("JD Gaming"), JStr("[\"0.35\", \"0.65\"]"))>>)),
      Event(JStr("LPL 2026 Season Winner"),
            JList(<<Market(JStr("T1"), JStr("[\"0.2\", \"0.8\"]"))>>)),
      Event(JStr("LCK vs LPL Rift Rivals"),
            JList(<<Market(JStr("T1"), JStr("[\"0.65\", \"0.35\"]"))>>)),
      Event(JStr("Worlds 2026 Winner"), JNull),
      JDict([markets |-> JNull]),
      Event(JNull, JList(<< >>)),
      Event(JStr("LCK 2026 Season Winner"), JNull),
      Event(JStr("LCK 2026 Season Winner"), JDict([error |-> JStr("gone")])),
      JNull }

\* The bodies that parse: lists of events, and bodies of another shape
OddsBodies ==
    {JList(<<LckEvent(ml)>>) : ml \in MarketLists}
    \cup {JList(<<LckEvent(<<GenGMarket>>), e>>) : e \in OtherEvents}
    \cup {JList(<<e, LckEvent(<<GenGMarket>>)>>) : e \in OtherEvents}
    \cup {JList(<< >>), JNull, JNum(0), JStr("down"), JDict(EmptyDict),
          JDict([error |-> JStr("rate limited")])}

OddsOutcomes ==
    {Failed(e) : e \in TransportFailures \cup {"JSONDecodeError"}}
    \cup {Parsed(b) : b \in OddsBodies}

\* The teams get_team_odds is asked about
OddsTeams == {"Gen.G", "T1", "JDG Intel", "FakeTeam"}

\* The engine is not run
EngineIdle ==
    /\ table = << >>
    /\ by_league = FALSE
    /\ leagues = << >>
    /\ league = "-"
    /\ league_games = << >>
    /\ groups = << >>
    /\ elos = EmptyDict
    /\ history = << >>
    /\ all_elos = EmptyDict
    /\ all_history = << >>
    /\ history_df = << >>
    /\ step = NoStep

InitOdds ==
    /\ pc = "odds"
    /\ response \in OddsOutcomes
    /\ res = None
    /\ EngineIdle
    /\ ScheduleIdle
    /\ SyncIdle

\* A call of a function ends: it returned r.value or raised r.raised
Ended(r) == IF r.raised = "none" THEN "returned" ELSE "raised"

\* fetch_polymarket_odds()
FetchPolymarketOdds ==
    /\ pc = "odds"
    /\ res' = [fn |-> "fetch_polymarket_odds"] @@ fetch_polymarket_odds(response)
    /\ pc' = Ended(res')
    /\ UNCHANGED engine
    /\ UNCHANGED ext

\* get_team_odds(team_a, team_b), which calls fetch_polymarket_odds
GetTeamOdds ==
    /\ pc = "odds"
    /\ \E team_a, team_b \in OddsTeams :
          LET all_odds == fetch_polymarket_odds(response)
          IN  res' = [fn |-> "get_team_odds", team_a |-> team_a,
                      team_b |-> team_b, all_odds |-> all_odds]
                     @@ Then(all_odds, LAMBDA odds :
                             Ok(get_team_odds(team_a, team_b, odds)))
    /\ pc' = Ended(res')
    /\ UNCHANGED engine
    /\ UNCHANGED ext


----------------------------------------------------------------------------
(* schedule_fetcher.py: the schedule of a league, page by page *)

\* The items of LEAGUE_IDS
LEAGUE_IDS ==
    << <<"LCS", "98767991299243165">>,
       <<"LEC", "98767991302996019">>,
       <<"LCK", "98767991310872058">>,
       <<"LPL", "98767991314006698">>,
       <<"CBLOL", "98767991332355509">>,
       <<"LJL", "98767991349978712">>,
       <<"TCL", "98767991343597634">>,
       <<"LFL", "105266103462388553">>,
       <<"LCP", "113476371197627891">>,
       <<"NLC", "105266098308571975">>,
       <<"LIT", "105266094998946936">>,
       <<"ROL", "107407335299756365">>,
       <<"EBL", "105266111679554379">>,
       <<"HLL", "105266108767593290">>,
       <<"AL", "109545772895506419">>,
       <<"LCKC", "98767991335774713">>,
       <<"HW", "105266106309666619">>,
       <<"CCWS", "113673877956508505">> >>

\* LEAGUE_IDS.get(league), None as JNull
LeagueId(lg) ==
    LET hits == SelectSeq(LEAGUE_IDS, LAMBDA kv : kv[1] = lg)
    IN  IF Len(hits) > 0 THEN JStr(hits[1][2]) ELSE JNull

\* The pages one call asks for at most: range(5)
MaxPages == 5

\* _api_get(endpoint, params) on the outcome of its request: the parsed
\* body, or None after a warning when urlopen, read or json.loads raised
api_get(outcome) == IF outcome.failed # "none" THEN JNull ELSE outcome.body

\* x.get(key, default)
PyGet(x, key, default) ==
    IF x.t = "dict" THEN Ok(Get(x.d, key, default)) ELSE Raise("AttributeError")

\* r.get(key, default) for the result r of a call, if that call returned
ThenGet(r, key, default) ==
    IF r.raised = "none" THEN PyGet(r.value, key, default) ELSE r

\* len(x)
PyLen(x) ==
    CASE x.t = "list" -> Ok(Len(x.items))
      [] x.t = "dict" -> Ok(Cardinality(DOMAIN x.d))
      [] x.t = "str" -> Ok(Len(Chars(x.s)))
      [] OTHER -> Raise("TypeError")

\* x[i] for 0 <= i < len(x)
PyIndex(x, i) ==
    CASE x.t = "list" -> Ok(x.items[i + 1])
      [] x.t = "str" -> Ok(JStr(Chars(x.s)[i + 1]))
      [] x.t = "dict" -> Raise("KeyError")

\* teams[i].get(key, default) if len(teams) > i else default
TeamGet(teams, i, key, default) ==
    Then(PyLen(teams), LAMBDA n :
    IF n > i THEN ThenGet(PyIndex(teams, i), key, default) ELSE Ok(default))

\* fetch_league_schedule, lines 104-112: the game wins of the two teams;
\* on both results read, r.get("gameWins", 0) of each result that is true
GameWins(teams) ==
    IF ~Truthy(teams) THEN Ok(<<JNum(0), JNum(0)>>)
    ELSE
    Then(PyLen(teams), LAMBDA n :
    IF n < 2 THEN Ok(<<JNum(0), JNum(0)>>)
    ELSE
    Then(ThenGet(PyIndex(teams, 0), "result", JNull), LAMBDA r0 :
    Then(ThenGet(PyIndex(teams, 1), "result", JNull), LAMBDA r1 :
    Then(IF Truthy(r0) THEN PyGet(r0, "gameWins", JNum(0)) ELSE Ok(JNum(0)),
         LAMBDA w0 :
    Then(IF Truthy(r1) THEN PyGet(r1, "gameWins", JNum(0)) ELSE Ok(JNum(0)),
         LAMBDA w1 :
    Ok(<<w0, w1>>))))))

\* fetch_league_schedule, lines 93-128: what one event appends to
\* all_events: nothing, or the record of a match
EventRecords(event, lg) ==
    IF event.t # "dict" THEN Raise("AttributeError")
    ELSE IF ~IsStr(Get(event.d, "type", JNull), "match") THEN Ok(<< >>)
    ELSE
    LET match == Get(event.d, "match", JDict(EmptyDict))
    IN  Then(PyGet(match, "teams", JList(<< >>)), LAMBDA teams :
        Then(TeamGet(teams, 0, "name", JStr("TBD")), LAMBDA name_a :
        Then(TeamGet(teams, 1, "name", JStr("TBD")), LAMBDA name_b :
        Then(TeamGet(teams, 0, "code", JStr("")), LAMBDA code_a :
        Then(TeamGet(teams, 1, "code", JStr("")), LAMBDA code_b :
        Then(GameWins(teams), LAMBDA wins :
        Then(PyGet(match, "strategy", JDict(EmptyDict)), LAMBDA strategy :
        Then(PyGet(strategy, "type", JStr("")), LAMBDA strategy_type :
        Then(PyGet(strategy, "count", JNum(1000)), LAMBDA strategy_count :
        Ok(<<[date |-> Get(event.d, "startTime", JStr("")),
              block |-> Get(event.d, "blockName", JStr("")),
              team_a |-> name_a,
              team_b |-> name_b,
              team_a_code |-> code_a,
              team_b_code |-> code_b,
              team_a_wins |-> wins[1],
              team_b_wins |-> wins[2],
              state |-> Get(event.d, "state", JStr("")),
              match_id |-> Get(match.d, "id", JStr("")),
              league |-> JStr(lg),
              strategy_type |-> strategy_type,
              strategy_count |-> strategy_count]>>))))))))))

\* fetch_league_schedule, lines 92-128: the loop over the events of a page
RECURSIVE EventsLoop(_, _, _)
EventsLoop(acc, events, lg) ==
    IF events = << >> THEN Ok(acc)
    ELSE Then(EventRecords(Head(events), lg),
              LAMBDA records : EventsLoop(acc \o records, Tail(events), lg))

\* fetch_league_schedule, lines 88-135: the page in data is read: the call
\* raises, or the records are appended and the loop goes on with the token
\* of the next page or is left
ReadPage(events_so_far, token, page, lg) ==
    Then(ThenGet(PyGet(page, "data", JDict(EmptyDict)),
                 "schedule", JDict(EmptyDict)), LAMBDA schedule :
    Then(PyGet(schedule, "events", JList(<< >>)), LAMBDA events :
    Then(PyGet(schedule, "pages", JDict(EmptyDict)), LAMBDA pages :
    Then(Iter(events), LAMBDA items :
    Then(EventsLoop(events_so_far, items, lg), LAMBDA records :
    Then(PyGet(pages, "newer", JNull), LAMBDA newer :
    LET more == Truthy(newer) /\ newer # token
    IN  Ok([all_events |-> records,
            page_token |-> IF more THEN newer ELSE token,
            break |-> ~more])))))))

\* pd.to_datetime(x, errors="coerce", utc=True) of one value as a day
\* number, NaT as NaN, for the start times the provider is given
ToDatetime(x) ==
    CASE IsStr(x, "2026-01-10T08:00:00Z") -> 10
      [] IsStr(x, "2026-01-05T08:00:00Z") -> 5
      [] OTHER -> NaN

\* A day number later than every date, the place of NaT in a sort
LastDay == 1000000

\* fetch_league_schedule, lines 137-144: the frame of the records, with the
\* date column converted and the rows sorted by it, NaT last (an empty
\* frame is the frame without rows)
ScheduleFrame(events) ==
    LET rows == [i \in 1..Len(events) |->
                    [events[i] EXCEPT !.date = ToDatetime(events[i].date)]]
    IN  SortByKey(rows, [i \in 1..Len(rows) |->
                    IF rows[i].date = NaN THEN LastDay ELSE rows[i].date])

----------------------------------------------------------------------------
(* The schedule provider: what a getSchedule request can meet *)

Team(name, code, result) ==
    JDict([name |-> JStr(name), code |-> JStr(code), result |-> result])

\* A completed match of two teams, a match without a second team, without
\* a strategy and without a start time, and an event that is no match
CompletedMatch ==
    JDict([type |-> JStr("match"),
           startTime |-> JStr("2026-01-10T08:00:00Z"),
           blockName |-> JStr("Week 1"),
           state |-> JStr("completed"),
           match |-> JDict([id |-> JStr("m1"),
                            teams |-> JList(<<
                                Team("T1", "T1", JDict([gameWins |-> JNum(2000)])),
                                Team("Gen.G", "GEN", JDict([gameWins |-> JNum(1000)]))>>),
                            strategy |-> JDict([type |-> JStr("bestOf"),
                                                count |-> JNum(3000)])])])

UnstartedMatch ==
    JDict([type |-> JStr("match"),
           startTime |-> JStr("2026-01-05T08:00:00Z"),
           state |-> JStr("unstarted"),
           match |-> JDict([id |-> JStr("m2"),
                            teams |-> JList(<<Team("DRX", "DRX", JNull),
                                              Team("TBD", "TBD", JNull)>>)])])

OpenMatch ==
    JDict([type |-> JStr("match"),
           state |-> JStr("unstarted"),
           match |-> JDict([teams |-> JList(<<Team("DRX", "DRX", JNull)>>)])])

Show == JDict([type |-> JStr("show"), startTime |-> JStr("2026-01-10T08:00:00Z")])

\* A response of getSchedule with its events and its pages record
Page(events, pages) ==
    JDict([data |-> JDict([schedule |->
        JDict([events |-> events, pages |-> pages])])])

EventLists ==
    {<< >>, <<CompletedMatch>>, <<Show, UnstartedMatch>>, <<OpenMatch>>}

\* The pages records: page tokens, no newer page
PagesRecords ==
    { JDict([older |-> JStr("t0"), newer |-> JStr("t1")]),
      JDict([older |-> JStr("t0"), newer |-> JStr("t2")]),
      JDict([older |-> JStr("t0"), newer |-> JNull]),
      JDict([older |-> JStr("t0"), newer |-> JStr("")]),
      JDict(EmptyDict) }

\* Events with one defect each: an event that is null, a match that is
\* null, teams that are null, a team that is null, a result that is no
\* object, a strategy that is null
BrokenEvents ==
    { JNull,
      JDict([type |-> JStr("match"), match |-> JNull]),
      JDict([type |-> JStr("match"), match |-> JDict([teams |-> JNull])]),
      JDict([type |-> JStr("match"),
             match |-> JDict([teams |-> JList(<<JNull>>)])]),
      JDict([type |-> JStr("match"),
             match |-> JDict([teams |-> JList(<<
                 Team("T1", "T1", JStr("2-1")), Team("DRX", "DRX", JNull)>>)])]),
      JDict([type |-> JStr("match"),
             match |-> JDict([teams |-> JList(<< >>), strategy |-> JNull])]) }

\* The bodies that parse: pages; empty bodies; an error object; and bodies
\* of another shape: a list, null in the place of an object at each level,
\* a broken event
ScheduleBodies ==
    {Page(JList(el), pr) : el \in EventLists, pr \in PagesRecords}
    \cup {JDict(EmptyDict), JList(<< >>), JNull,
          JDict([errors |-> JList(<<JStr("Forbidden")>>)]),
          JList(<<JStr("Forbidden")>>),
          JDict([data |-> JNull]),
          JDict([data |-> JDict([schedule |-> JNull])]),
          Page(JNull, JDict(EmptyDict)),
          Page(JList(<<CompletedMatch>>), JNull)}
    \cup {Page(JList(<<CompletedMatch, e>>), JDict(EmptyDict)) : e \in BrokenEvents}

ScheduleOutcomes ==
    {Failed(e) : e \in TransportFailures \cup {"JSONDecodeError"}}
    \cup {Parsed(b) : b \in ScheduleBodies}

\* The leagues fetch_league_schedule is asked for: with and without an id
ScheduleLeagues == {"LCK", "MSI"}

InitSchedule ==
    /\ pc = "schedule"
    /\ league_arg \in ScheduleLeagues
    /\ page_token = JNull
    /\ all_events = << >>
    /\ requests = 0
    /\ data = JNull
    /\ response = None
    /\ res = None
    /\ EngineIdle
    /\ SyncIdle

\* fetch_league_schedule, lines 71-76: the call, up to the loop: a league
\* without an id gets an empty frame
CallSchedule ==
    /\ pc = "schedule"
    /\ IF Truthy(LeagueId(league_arg))
       THEN /\ pc' = "loop"
            /\ res' = res
       ELSE /\ pc' = "returned"
            /\ res' = [fn |-> "fetch_league_schedule"] @@ Ok(<< >>)
    /\ all_events' = << >>
    /\ page_token' = JNull
    /\ UNCHANGED <<response, league_arg, requests, data>>
    /\ UNCHANGED <<csv, bak, age, force, gdown, tmp>>
    /\ UNCHANGED engine

\* A slip in the loop over the pages: while True
WhileTrue(n) == TRUE

\* fetch_league_schedule, line 79: for _ in range(5) has an iteration left
\* after n iterations
InRange(n) == n < MaxPages

\* fetch_league_schedule, lines 79-135: one iteration of the loop over the
\* pages: the request, and what is done with its response
RequestPage ==
    /\ pc = "loop"
    /\ \E outcome \in ScheduleOutcomes :
          LET d == api_get(outcome)
              r == ReadPage(all_events, page_token, d, league_arg)
          IN  /\ response' = outcome
              /\ data' = d
              /\ requests' = requests + 1
              /\ IF ~Truthy(d)
                 THEN /\ pc' = "frame"
                      /\ UNCHANGED <<all_events, page_token, res>>
                 ELSE IF r.raised # "none"
                 THEN /\ pc' = "raised"
                      /\ res' = [fn |-> "fetch_league_schedule"] @@ r
                      /\ UNCHANGED <<all_events, page_token>>
                 ELSE /\ all_events' = r.value.all_events
                      /\ page_token' = r.value.page_token
                      /\ pc' = IF r.value.break \/ ~InRange(requests + 1)
                               THEN "frame" ELSE "loop"
                      /\ res' = res
    /\ UNCHANGED <<league_arg, csv, bak, age, force, gdown, tmp>>
    /\ UNCHANGED engine

\* fetch_league_schedule, lines 137-144: the frame is built and returned
ReturnSchedule ==
    /\ pc = "frame"
    /\ res' = [fn |-> "fetch_league_schedule"] @@ Ok(ScheduleFrame(all_events))
    /\ pc' = "returned"
    /\ UNCHANGED engine
    /\ UNCHANGED ext


----------------------------------------------------------------------------
(* gdrive_sync.py: the local CSV is replaced by a download when it is      *)
(* stale.  The content of a file is a str, its age an integer number of    *)
(* hours.                                                                  *)

SYNC_INTERVAL_HOURS == 24

\* float("inf"), the age of a file that does not exist
Infinity == 1000000

\* _file_age_hours()
file_age_hours(content, hours) == IF content = Absent THEN Infinity ELSE hours

\* A slip in the backup: nothing is copied
NoBackup(content, backup) == backup

\* _backup_existing(): the content of CSV_PATH + ".bak" after the call
backup_existing(content, backup) == IF content # Absent THEN content ELSE backup

\* f.endswith(".csv"), for the file names the folder is given
EndsWithCsv(f) ==
    f \in {"2026_LoL_esports_match_data_from_OraclesElixir.csv", "2025.csv"}

\* download_from_gdrive, lines 101-108: the first file of the walk whose
\* name ends with ".csv", None if there is none
FirstCsv(files) ==
    LET hits == SelectSeq(files, LAMBDA f : EndsWithCsv(f.name))
    IN  IF Len(hits) > 0 THEN hits[1] ELSE None

File(name, content) == [name |-> name, content |-> content]

\* What gdown.download_folder leaves in the temporary directory, in the
\* order of os.walk: nothing, no CSV, the CSV, the CSV among other files,
\* two CSV files, a name in capitals
Folders ==
    { << >>,
      <<File("README.txt", "r")>>,
      <<File("2026_LoL_esports_match_data_from_OraclesElixir.csv", "v2")>>,
      <<File("README.txt", "r"),
        File("2026_LoL_esports_match_data_from_OraclesElixir.csv", "v2")>>,
      <<File("2025.csv", "y"),
        File("2026_LoL_esports_match_data_from_OraclesElixir.csv", "v2")>>,
      <<File("DATA.CSV", "d")>> }

\* The ages of an existing file, in hours, about the threshold
Ages == {0, SYNC_INTERVAL_HOURS - 1, SYNC_INTERVAL_HOURS, SYNC_INTERVAL_HOURS + 1}

InitSync ==
    /\ pc = "sync"
    /\ gdown \in BOOLEAN
    /\ force \in BOOLEAN
    /\ csv \in {Absent, "v1"}
    /\ bak \in {Absent, "v0"}
    /\ age \in Ages
    /\ tmp = << >>
    /\ response = None
    /\ res = None
    /\ EngineIdle
    /\ ScheduleIdle

Returned(fn, v) == [fn |-> fn] @@ Ok(v)

\* download_from_gdrive, lines 58-65: the import of gdown
ImportGdown ==
    /\ pc = "sync"
    /\ IF gdown
       THEN /\ pc' = "age"
            /\ res' = res
       ELSE /\ pc' = "returned"
            /\ res' = Returned("download_from_gdrive", FALSE)
    /\ UNCHANGED engine
    /\ UNCHANGED ext

\* download_from_gdrive, lines 67-79: a fresh file is not synced
CheckAge ==
    /\ pc = "age"
    /\ IF ~force /\ file_age_hours(csv, age) < SYNC_INTERVAL_HOURS
       THEN /\ pc' = "returned"
            /\ res' = Returned("download_from_gdrive", FALSE)
       ELSE /\ pc' = "backup"
            /\ res' = res
    /\ UNCHANGED engine
    /\ UNCHANGED ext

\* download_from_gdrive, lines 81-82: the backup
BackupExisting ==
    /\ pc = "backup"
    /\ bak' = backup_existing(csv, bak)
    /\ pc' = "download"
    /\ UNCHANGED <<res, response, league_arg, page_token, all_events,
                   requests, data, csv, age, force, gdown, tmp>>
    /\ UNCHANGED engine

\* download_from_gdrive, lines 88-98: the download of the folder into the
\* temporary directory, which raises or leaves files
DownloadFolder ==
    /\ pc = "download"
    /\ \E outcome \in {Failed("Exception")} \cup {Parsed(f) : f \in Folders} :
          /\ response' = outcome
          /\ IF outcome.failed # "none"
             THEN /\ pc' = "returned"
                  /\ res' = Returned("download_from_gdrive", FALSE)
                  /\ tmp' = << >>
             ELSE /\ pc' = "find"
                  /\ res' = res
                  /\ tmp' = outcome.body
    /\ UNCHANGED <<league_arg, page_token, all_events, requests, data,
                   csv, bak, age, force, gdown>>
    /\ UNCHANGED engine

\* download_from_gdrive, lines 100-116: the CSV of the download is copied
\* over the local one, and the temporary directory is removed
CopyDownloaded ==
    /\ pc = "find"
    /\ LET downloaded == FirstCsv(tmp)
       IN  IF downloaded = None
           THEN /\ res' = Returned("download_from_gdrive", FALSE)
                /\ UNCHANGED <<csv, age>>
           ELSE /\ res' = Returned("download_from_gdrive", TRUE)
                /\ csv' = downloaded.content
                /\ age' = 0
    /\ tmp' = << >>
    /\ pc' = "returned"
    /\ UNCHANGED <<response, league_arg, page_token, all_events, requests,
                   data, bak, force, gdown>>
    /\ UNCHANGED engine

----------------------------------------------------------------------------
(* The collaborators: one call of one of them per run *)

InitExt == InitOdds \/ InitSchedule \/ InitSync

NextExt ==
    \/ FetchPolymarketOdds
    \/ GetTeamOdds
    \/ CallSchedule
    \/ RequestPage
    \/ ReturnSchedule
    \/ ImportGdown
    \/ CheckAge
    \/ BackupExisting
    \/ DownloadFolder
    \/ CopyDownloaded

SpecExt == InitExt /\ [][NextExt]_vars

\* A step of fetch_league_schedule
ScheduleStep == CallSchedule \/ RequestPage \/ ReturnSchedule

\* The call is synchronous: once made it goes on until it returns or
\* raises, no step of it is put off for ever
SpecExtFair == SpecExt /\ WF_vars(ScheduleStep)

----------------------------------------------------------------------------
(* Properties of the collaborators *)

\* The request made last failed in transport or its body was no JSON
RequestFailed == response # None /\ response.failed # "none"

\* The part of C21 about transport and parse failures: fetch_polymarket_odds
\* returns an empty dict, _api_get returns None, and fetch_league_schedule
\* returns an empty frame when its first request fails
TransportFailureAbsorbed ==
    /\ (pc \in {"returned", "raised"} /\ res.fn = "fetch_polymarket_odds"
            /\ RequestFailed)
          => res.raised = "none" /\ DOMAIN res.value = {}
    /\ (pc \in {"loop", "frame", "raised"} /\ RequestFailed)
          => data = JNull /\ pc = "frame"
    /\ (pc = "returned" /\ res.fn = "fetch_league_schedule" /\ RequestFailed
            /\ requests = 1)
          => res.raised = "none" /\ res.value = << >>

\* C21: a failure of a provider (a network error, a timeout, a response
\* that does not parse or has an unexpected shape) never propagates an
\* exception to the caller: no call of fetch_polymarket_odds, get_team_odds
\* or fetch_league_schedule ends by raising, and a failed request gives an
\* empty dict, None from _api_get and an empty frame
C21_FailuresAbsorbed ==
    /\ pc # "raised"
    /\ TransportFailureAbsorbed

\* The call of get_team_odds that ended last returned
OddsLookedUp == pc = "returned" /\ res.fn = "get_team_odds"

HasOdds(team) == team \in DOMAIN res.all_odds.value

\* C22: get_team_odds(team_a, team_b) returns None if and only if neither
\* team has odds; otherwise it returns a record with the odds of each team,
\* None for a team without odds, and the league of the first of the two
\* teams that has odds
C22_TeamOdds ==
    OddsLookedUp =>
        /\ (res.value = None) <=> (~HasOdds(res.team_a) /\ ~HasOdds(res.team_b))
        /\ res.value # None =>
              /\ res.value.team_a =
                    IF HasOdds(res.team_a) THEN res.all_odds.value[res.team_a]
                    ELSE None
              /\ res.value.team_b =
                    IF HasOdds(res.team_b) THEN res.all_odds.value[res.team_b]
                    ELSE None
              /\ HasOdds(res.team_a) =>
                    res.value.league = res.all_odds.value[res.team_a].league
              /\ ~HasOdds(res.team_a) =>
                    res.value.league = res.all_odds.value[res.team_b].league

\* Two teams with odds in markets of two leagues are looked up
C22_Witness ==
    /\ OddsLookedUp
    /\ HasOdds(res.team_a)
    /\ HasOdds(res.team_b)
    /\ res.all_odds.value[res.team_a].league = "LPL"
    /\ res.all_odds.value[res.team_b].league = "LCK"
    /\ res.value.league = "LPL"

----------------------------------------------------------------------------
(* Properties of the merged ratings and of the rated games *)

\* The position of the first row of league lg in the table
FirstRowOf(df, lg) ==
    CHOOSE i \in 1..Len(df) :
        df[i].league = lg /\ \A j \in 1..(i - 1) : df[j].league # lg

\* The ratings compute_elo gives on the rows of league lg alone
LeagueRatings(df, lg) ==
    compute_elo(SelectSeq(df, LAMBDA r : r.league = lg)).elos

\* The leagues whose partition rates team t
RatedIn(df, t) ==
    {lg \in {df[i].league : i \in 1..Len(df)} : t \in DOMAIN LeagueRatings(df, lg)}

\* Of a set of leagues of the table, the one whose first row comes last
LastProcessed(df, lgs) ==
    CHOOSE lg \in lgs :
        \A other \in lgs : FirstRowOf(df, other) <= FirstRowOf(df, lg)

\* C23: in per-league mode every partition rates its teams independently
\* of the others, and the merged mapping holds for a team the rating of
\* the partition processed last among those that rate it, the partitions
\* being processed in the order of the first row of each league in the
\* table; the ratings of the other partitions are discarded, not combined
C23_LastPartitionWins ==
    (pc = "done" /\ by_league)
    => \A t \in Teams :
          /\ (t \in DOMAIN all_elos) <=> (RatedIn(table, t) # {})
          /\ RatedIn(table, t) # {}
                => all_elos[t] =
                      LeagueRatings(table, LastProcessed(table, RatedIn(table, t)))[t]

\* A team is rated in two leagues with two ratings, and the league whose
\* rows come second in the table is the first by name
C23_Witness ==
    /\ pc = "done"
    /\ by_league
    /\ \E t \in Teams :
          /\ RatedIn(table, t) = {"LCK", "LPL"}
          /\ LeagueRatings(table, "LCK")[t] # LeagueRatings(table, "LPL")[t]
          /\ FirstRowOf(table, "LPL") < FirstRowOf(table, "LCK")
          /\ all_elos[t] = LeagueRatings(table, "LCK")[t]

\* The sum of the ratings of a mapping
RatingMass(d) == SumOver(DOMAIN d, d)

\* The two-row groups the running compute_elo has rated so far
RatedGames ==
    {g \in Visited : Len(GroupRows(league_games, g)) = 2}

\* A group whose two rows name one team
SelfGame(rows) == rows[1].teamname = rows[2].teamname

\* C24 as stated: within one compute_elo run, after any sequence of
\* processed and skipped games, the sum of the ratings of the mapping is
\* 1500 times the number of its teams, also when the two rows of a game
\* name the same team.  (Stated for the runs whose rated games have a Blue
\* and a Red row of one date and one league with complementary results: it
\* fails among these already.)
C24_MassEveryRun ==
    (pc = "games"
        /\ \A g \in RatedGames :
              LET rows == GroupRows(league_games, g)
              IN  /\ {rows[1].side, rows[2].side} = {"Blue", "Red"}
                  /\ rows[1].result + rows[2].result = 1
                  /\ rows[1].date = rows[2].date
                  /\ rows[1].league = rows[2].league)
    => RatingMass(elos) = STARTING_ELO * Cardinality(DOMAIN elos)

\* C24, amended: within one compute_elo run in which every rated game names
\* two different teams, after any sequence of processed and skipped games
\* the sum of the ratings of the mapping is 1500 times the number of its
\* teams, in exact arithmetic
C24_MassConserved ==
    (pc = "games"
        /\ \A g \in RatedGames : ~SelfGame(GroupRows(league_games, g)))
    => RatingMass(elos) = STARTING_ELO * Cardinality(DOMAIN elos)

\* Two games among three teams are rated and a group is skipped, and no
\* team is left at 1500
C24_Witness ==
    /\ pc = "games"
    /\ groups = << >>
    /\ Cardinality(RatedGames) = 2
    /\ \A g \in RatedGames : ~SelfGame(GroupRows(league_games, g))
    /\ Cardinality(DOMAIN elos) = 3
    /\ \A t \in DOMAIN elos : elos[t] # STARTING_ELO

\* C25 as stated: every game that updates ratings is well-formed in
\* content: the row treated as Blue has side Blue, the other row has side
\* Red, exactly one of the two rows has result 1, and the team of that row
\* is the one scored as the winner
C25_RatedGamesWellFormed ==
    step.kind = "game"
    => /\ step.blue_row.side = "Blue"
       /\ step.red_row.side = "Red"
       /\ step.blue_row.result + step.red_row.result = 1
       /\ step.actual_blue = step.blue_row.result
       /\ step.actual_red = step.red_row.result

\* C26 as stated: in the output of compute_all_elo the history is in
\* non-decreasing date order, and for every team of the mapping the rating
\* of the team's last history entry in that order is the team's rating in
\* the mapping rounded to 1 decimal.  (Stated for the tables of well-formed
\* games: it fails among these already.)
C26_LastEntryIsRating ==
    (pc = "done" /\ WellFormedTable(table))
    => /\ \A i, j \in 1..Len(history_df) :
             i < j => history_df[i].date <= history_df[j].date
       /\ \A t \in DOMAIN all_elos :
             LET entries == TeamEntries(history_df, t)
             IN  /\ entries # << >>
                 /\ entries[Len(entries)].elo = Round1(all_elos[t])

\* The part of C26 about the order of the history
HistoryInDateOrder ==
    pc = "done"
    => \A i, j \in 1..Len(history_df) :
          i < j => history_df[i].date <= history_df[j].date


----------------------------------------------------------------------------
(* Properties of the projector under a swap of the teams *)

\* The projection of the same matchup with the teams swapped, over the
\* same table, mapping and window
Swapped == project_matchup(res.team_b, res.team_a, table, all_elos, res.last_n)

\* C27: project_matchup is antisymmetric under swapping the teams: for the
\* same table, ratings, window and default weights, the win probability and
\* the composite of team A in the projection of (A, B) are the win
\* probability and the composite of team B in the projection of (B, A).
C27_Antisymmetric ==
    res.fn = "project_matchup"
    => /\ res.value.win_prob_a = Swapped.win_prob_b
       /\ res.value.composite_a = Swapped.composite_b

\* Two different teams of the table, one rated above the other, with
\* different composites and a win probability off one half
C27_Witness ==
    /\ res.fn = "project_matchup"
    /\ res.team_a # res.team_b
    /\ {res.team_a, res.team_b} \subseteq TeamNames(table)
    /\ res.value.elo_a > res.value.elo_b
    /\ res.value.profile_a # res.value.profile_b
    /\ res.value.composite_a # res.value.composite_b
    /\ res.value.win_prob_a # 500
    /\ res.value.win_prob_a = Swapped.win_prob_b


----------------------------------------------------------------------------
(* The leaderboard against the projector *)

\* project_matchup has been applied without a window to two teams of the
\* table, and the first has the strictly greater leaderboard composite
RankedAbove ==
    /\ res.fn = "project_matchup"
    /\ res.last_n = 0
    /\ {res.team_a, res.team_b} \subseteq TeamNames(table)
    /\ CompositeOf(res.team_a) > CompositeOf(res.team_b)

\* C28 as stated: for any two teams A and B over the same table and rating
\* mapping, if A's composite in global_power_rankings is strictly greater
\* than B's, then project_matchup(A, B) with no window and the default
\* weights gives win_prob_a >= 0.5.
C28_LeaderboardAgrees == RankedAbove => res.value.win_prob_a >= 500

\* C28 amended: for any two teams A and B of the table, if A's composite
\* in global_power_rankings is strictly greater than B's and A's rating is
\* at least B's, then project_matchup(A, B) with no window and the default
\* weights gives win_prob_a >= 0.5.
C28_AgreesWhenRatedAbove ==
    (RankedAbove /\ RatingOf(res.team_a) >= RatingOf(res.team_b))
    => res.value.win_prob_a >= 500

\* A is ranked above B with a rating at least B's and different profiles
C28_Witness ==
    /\ RankedAbove
    /\ RatingOf(res.team_a) >= RatingOf(res.team_b)
    /\ res.value.profile_a # res.value.profile_b
    /\ res.value.win_prob_a > 500


----------------------------------------------------------------------------
(* Properties of the schedule loop *)

\* The "newer" page token of a response body, as the loop reads it
NewerOf(d) ==
    ThenGet(ThenGet(ThenGet(PyGet(d, "data", JDict(EmptyDict)),
                            "schedule", JDict(EmptyDict)),
                    "pages", JDict(EmptyDict)),
            "newer", JNull)

\* fetch_league_schedule has come to its end
ScheduleEnded == pc \in {"returned", "raised"}

\* One request of the loop: it is at most the fifth; after a failed or
\* empty response the loop is left; after a response that is read without
\* an exception the loop goes on exactly if the response has a "newer"
\* token other than the token just used and this was not the fifth page
RequestStops ==
    pc = "loop"
    => /\ requests' = requests + 1
       /\ requests' <= MaxPages
       /\ ~Truthy(data') => pc' = "frame"
       /\ (Truthy(data') /\ pc' # "raised")
          => /\ NewerOf(data').raised = "none"
             /\ (pc' = "loop")
                <=> /\ Truthy(NewerOf(data').value)
                    /\ NewerOf(data').value # page_token
                    /\ requests' < MaxPages
             /\ pc' = "loop" => page_token' = NewerOf(data').value
       /\ pc' \in {"loop", "frame", "raised"}

\* C29: fetch_league_schedule always terminates after at most 5 getSchedule
\* requests per call: it stops at the first failed or empty response, or
\* when the response has no "newer" page token or that token equals the
\* token just used, and otherwise stops at the fifth page even if the
\* provider keeps returning new or cyclically repeating tokens.
C29_Terminates ==
    /\ [](requests <= MaxPages)
    /\ [][RequestStops]_vars
    /\ (pc \in {"schedule", "loop", "frame"}) ~> ScheduleEnded

\* Five requests were made, the fifth response carries one more token, and
\* the call has returned
C29_Witness ==
    /\ res.fn = "fetch_league_schedule"
    /\ pc = "returned"
    /\ requests = MaxPages
    /\ NewerOf(data).raised = "none"
    /\ Truthy(NewerOf(data).value)
    /\ page_token = NewerOf(data).value


----------------------------------------------------------------------------
(* Properties of the sync with the shared folder *)

\* download_from_gdrive is under way
Syncing == pc \in {"sync", "age", "backup", "download", "find"}

\* The step returns the value v
Returns(v) == pc' = "returned" /\ res'.value = v

\* One step of download_from_gdrive: only the step that returns True
\* changes the local CSV, to the content of the first downloaded CSV, and
\* at that step the backup holds the content that is overwritten
SyncStepKeepsCsv ==
    Syncing
    => /\ Returns(TRUE)
          => /\ FirstCsv(tmp) # None
             /\ csv' = FirstCsv(tmp).content
             /\ csv # Absent => bak = csv
       /\ ~Returns(TRUE) => csv' = csv
       /\ pc' = "returned" => res'.value \in BOOLEAN

\* C30: download_from_gdrive returns True only when the local CSV has been
\* replaced by a downloaded CSV; on every path that returns False (gdown not
\* installed, file younger than 24 hours without force, folder download
\* failure, no CSV in the downloaded folder) the content of the local CSV is
\* unchanged, and whenever the CSV is overwritten a .bak copy of its previous
\* content was written first.
C30_SyncKeepsOrReplaces == [][SyncStepKeepsCsv]_vars

\* An old local CSV was replaced by the downloaded one, which was not the
\* only file of the folder, and the backup holds the old content
C30_Witness ==
    /\ res.fn = "download_from_gdrive"
    /\ pc = "returned"
    /\ res.value = TRUE
    /\ ~force
    /\ Len(response.body) > 1
    /\ csv = "v2"
    /\ bak = "v1"

====
